---- MODULE Spec2Model ----
(***************************************************************************)
(* A model of the json2 codec (src/json.c): the tokenizer, the parser      *)
(* driver with its context stack, the attribute name table, the per-object *)
(* hash index, the node accessors and the streaming writer.                *)
(*                                                                         *)
(* Bytes are integers 0..255.  A C index i of an array is element i+1 of   *)
(* the sequence that models it.  Pointers are indices: 0 is NULL.          *)
(***************************************************************************)
EXTENDS Integers, Sequences, FiniteSets, TLC

VARIABLES
    jw,     \* the writer object (struct _jwriter_t)
    jp,     \* the parser object (struct _jparser_t), name table included
    nodes,  \* the nodes living in the parser's arena; nodes[1] is `none'
    root,   \* the caller's root node pointer (the `node' of the tests)
    json,   \* the caller's memory holding the document handed to jp_parse
    jsize,  \* the caller's document length
    pc,     \* where the caller is: "idle", "parsing" (inside jp_parse),
            \* "done" (jp_parse returned), "trapped" (the process faulted)
    calls,  \* the writer calls the caller made, in order
    ret,    \* what the last jw_get / jp_parse returned
    res,    \* what the last jn_elt / jn_attr returned
    ub      \* the undefined behaviours executed so far

vars == <<jw, jp, nodes, root, json, jsize, pc, calls, ret, res, ub>>

(***************************************************************************)
(* Bytes and character classes.                                            *)
(***************************************************************************)

\* The bytes the documents of the model are written with.
CH == [nul |-> 0, tab |-> 9, lf |-> 10, cr |-> 13, bs |-> 8, ff |-> 12,
       sp |-> 32, dq |-> 34, sq |-> 39, plus |-> 43, comma |-> 44,
       minus |-> 45, dot |-> 46, slash |-> 47, d0 |-> 48, d1 |-> 49,
       d2 |-> 50, d9 |-> 57, colon |-> 58, E |-> 69, lbrack |-> 91,
       bslash |-> 92, rbrack |-> 93, us |-> 95, a |-> 97, b |-> 98,
       e |-> 101, f |-> 102, l |-> 108, n |-> 110, r |-> 114, s |-> 115,
       t |-> 116, u |-> 117, x |-> 120, z |-> 122, lbrace |-> 123,
       rbrace |-> 125, hi |-> 208]

\* The byte at C index i of a memory region; past the modelled region the
\* memory reads as NUL.
ByteAt(mem, i) == IF 0 <= i /\ i < Len(mem) THEN mem[i + 1] ELSE CH.nul

\* A byte read through a `char' (signed on the builds the tests run on).
SChar(byte) == IF byte >= 128 THEN byte - 256 ELSE byte

\* c | 0x20
Or20(byte) == IF (byte \div 32) % 2 = 0 THEN byte + 32 ELSE byte

\* The character type translation table.
ct(byte) ==
    IF byte \in {9, 10, 13, 32} THEN "CBL"
    ELSE IF byte \in {34, 39} THEN "CQT"
    ELSE IF byte = 44 THEN "CCM"
    ELSE IF byte = 45 THEN "CMN"
    ELSE IF byte = 46 THEN "CPT"
    ELSE IF byte = 47 THEN "CSL"
    ELSE IF byte \in 48..57 THEN "CNM"
    ELSE IF byte = 58 THEN "CCL"
    ELSE IF byte \in 65..90 \/ byte = 95 \/ byte \in 97..122 THEN "CLT"
    ELSE IF byte = 91 THEN "CAS"
    ELSE IF byte = 93 THEN "CAE"
    ELSE IF byte = 123 THEN "COS"
    ELSE IF byte = 125 THEN "COE"
    ELSE "CNV"

\* The first index p in from..len-1 whose byte's class is not in cls, or len:
\* where the loops `for (; pos < len; pos++) if (t != ...) break;' stop.
SkipClass(mem, len, from, cls) ==
    LET stops == {q \in from..(len - 1) : ct(ByteAt(mem, q)) \notin cls}
    IN  IF from >= len THEN from
        ELSE IF stops = {} THEN len
        ELSE CHOOSE q \in stops : \A o \in stops : q <= o

\* The loop `for (k = i; k <= j; k++) acc = Op(acc, k)': the value of acc
\* after it.  The range is halved and the first half is evaluated before
\* the second is entered, so that the evaluation stays shallow.
RECURSIVE Loop(_, _, _, _)
Loop(Op(_, _), acc, i, j) ==
    IF i > j THEN acc
    ELSE IF i = j THEN Op(acc, i)
    ELSE LET mid == (i + j) \div 2
         IN  CHOOSE r \in {Loop(Op, half, mid + 1, j) :
                              half \in {Loop(Op, acc, i, mid)}} : TRUE

\* Compare ignoring case: the bytes at mem+pos against a lower-case word.
jp_cmpi(mem, pos, word) ==
    \A i \in 1..Len(word) : Or20(ByteAt(mem, pos + i - 1)) = word[i]

(***************************************************************************)
(* The tokenizer.                                                          *)
(***************************************************************************)

\* The integer range check of a JINT token: its type after the check.
IntRangeType(mem, tpos, tlen) ==
    IF tlen > 10 THEN "JDBL"
    ELSE IF tlen = 10 THEN
        LET neg == ByteAt(mem, tpos) = CH.minus
            val == IF neg THEN tpos + 1 ELSE tpos
            max == IF neg THEN <<50, 49, 52, 55, 52, 56, 51, 54, 52, 56>>
                          ELSE <<50, 49, 52, 55, 52, 56, 51, 54, 52, 55>>
        IN  IF \E i \in 0..9 : SChar(ByteAt(mem, val + i)) > max[i + 1]
            THEN "JDBL" ELSE "JINT"
    ELSE "JINT"

\* The exponent part of a number token starting at p, its digits ending at
\* p2 and its fraction (when hasDot) at p3, and the token that results.
NumberExp(mem, len, p, p2, hasDot, p3) ==
    LET hasExp == p3 < len /\ Or20(ByteAt(mem, p3)) = CH.e
        sign == hasExp /\ p3 + 1 < len
                /\ ByteAt(mem, p3 + 1) \in {CH.minus, CH.plus}
        pd == IF sign THEN p3 + 2 ELSE p3 + 1
        expErr == hasExp /\ (pd >= len \/ ct(ByteAt(mem, pd)) # "CNM")
        p4 == IF hasExp THEN SkipClass(mem, len, pd + 1, {"CNM"}) ELSE p3
    IN  IF expErr THEN
            [type |-> "JERROR", pos |-> p, len |-> pd - p, next |-> p,
             err |-> TRUE]
        ELSE IF hasDot \/ hasExp THEN
            [type |-> "JDBL", pos |-> p, len |-> p4 - p, next |-> p4,
             err |-> FALSE]
        ELSE
            [type |-> IntRangeType(mem, p, p2 - p), pos |-> p, len |-> p2 - p,
             next |-> p2, err |-> FALSE]

\* The fraction part of a number token starting at p, its digits ending at
\* p2, and what follows.
NumberFrac(mem, len, p, p2) ==
    LET hasDot == p2 < len /\ ByteAt(mem, p2) = CH.dot
        dotErr == hasDot /\ (p2 + 1 >= len \/ ct(ByteAt(mem, p2 + 1)) # "CNM")
    IN  IF dotErr THEN
            [type |-> "JERROR", pos |-> p, len |-> p2 - p + 1, next |-> p,
             err |-> TRUE]
        ELSE NumberExp(mem, len, p, p2, hasDot,
                       IF hasDot THEN SkipClass(mem, len, p2 + 2, {"CNM"})
                       ELSE p2)

\* A number token starting at p: [type, pos (of the token), len, next, err].
\* next is the position after the token; err says the scan left by `error'.
NumberToken(mem, len, p) ==
    NumberFrac(mem, len, p, SkipClass(mem, len, p + 1, {"CNM"}))

\* A quoted token whose opening quote is at p: a string or an attribute name.
QuotedToken(mem, len, p) ==
    LET c == ByteAt(mem, p)
        close == {q \in (p + 1)..(len - 1) :
                    ByteAt(mem, q) = c /\ ByteAt(mem, q - 1) # CH.bslash}
        found == close # {}
        q0 == IF found THEN CHOOSE q \in close : \A o \in close : q <= o
              ELSE len
        tlen == q0 - (p + 1)
        p5 == SkipClass(mem, len, IF found THEN q0 + 1 ELSE len, {"CBL"})
        isName == p5 < len /\ ct(ByteAt(mem, p5)) = "CCL"
        badName == \/ ct(ByteAt(mem, p + 1)) # "CLT"
                   \/ \E i \in 1..(tlen - 1) :
                        ct(ByteAt(mem, p + 1 + i)) \notin {"CLT", "CNM"}
    IN  IF isName /\ badName THEN
            [type |-> "JERROR", pos |-> p + 1, len |-> tlen, next |-> p,
             err |-> TRUE]
        ELSE
            [type |-> IF isName THEN "JNAME"
                      ELSE IF found THEN "JSTR" ELSE "JERROR",
             pos |-> p + 1, len |-> tlen,
             next |-> IF isName THEN p5 + 1 ELSE p5, err |-> FALSE]

\* An attribute name without quotes starting at p.
BareNameToken(mem, len, p) ==
    LET p6 == SkipClass(mem, len, p + 1, {"CLT", "CNM"})
        p7 == SkipClass(mem, len, p6, {"CBL"})
    IN  IF p7 >= len \/ ct(ByteAt(mem, p7)) # "CCL" THEN
            [type |-> "JERROR", pos |-> p, len |-> p6 - p, next |-> p,
             err |-> TRUE]
        ELSE
            [type |-> "JNAME", pos |-> p, len |-> p6 - p, next |-> p7 + 1,
             err |-> FALSE]

\* The parser after the tokenizer found tk: the current token and the
\* position are set; an error leaves the position where it was.
SetToken(p, tk) ==
    [p EXCEPT !.tokc = [type |-> tk.type, len |-> tk.len, pos |-> tk.pos],
              !.pos = IF tk.err THEN p.pos ELSE tk.next]

\* Read next token from json stream: the parser with tokc and pos updated.
jp_next(p) ==
    LET mem == p.start
        len == p.len
        p1 == SkipClass(mem, len, p.pos, {"CBL"})
        t == IF p1 < len THEN ct(ByteAt(mem, p1)) ELSE "CNV"
        single == [CAS |-> "JASTART", CAE |-> "JAEND", COS |-> "JOSTART",
                   COE |-> "JOEND", CCM |-> "JCOMMA"]
        keep(type, next) ==
            [type |-> type, pos |-> p.tokc.pos, len |-> p.tokc.len,
             next |-> next, err |-> FALSE]
        word(type, n) ==
            [type |-> type, pos |-> p1, len |-> n, next |-> p1 + n,
             err |-> FALSE]
        tk == IF p1 >= len THEN keep("JINEND", p1)
              ELSE IF t \in DOMAIN single THEN keep(single[t], p1 + 1)
              ELSE IF t \in {"CMN", "CNM"} THEN NumberToken(mem, len, p1)
              ELSE IF t = "CQT" THEN QuotedToken(mem, len, p1)
              ELSE IF t = "CLT" /\ p1 + 4 <= len
                      /\ jp_cmpi(mem, p1, <<CH.n, CH.u, CH.l, CH.l>>)
                   THEN word("JNULL", 4)
              ELSE IF t = "CLT" /\ p1 + 4 <= len
                      /\ jp_cmpi(mem, p1, <<CH.t, CH.r, CH.u, CH.e>>)
                   THEN word("JBOOL", 4)
              ELSE IF t = "CLT" /\ p1 + 5 <= len
                      /\ jp_cmpi(mem, p1, <<CH.f, CH.a, CH.l, CH.s, CH.e>>)
                   THEN word("JBOOL", 5)
              ELSE IF t = "CLT" THEN BareNameToken(mem, len, p1)
              ELSE [type |-> "JERROR", pos |-> p.tokc.pos,
                    len |-> p.tokc.len, next |-> p1, err |-> TRUE]
    IN  SetToken(p, tk)

(***************************************************************************)
(* The memory arena.  A chunk is [size, allocated]; ma.chunks is the list  *)
(* of chunks from ma->first on and ma.curr the place of ma->curr in it.    *)
(* An address is <<chunk, offset>>, the offset counted from the end of the *)
(* chunk header; NullPtr is NULL.  A returnable block is named by the      *)
(* address of its header (its payload starts SizeofRtHdr bytes further);   *)
(* ma.hdr holds the size field of every header stamped since the last      *)
(* reset, ma.free the free blocks from ma->free on.  malloc() is taken to  *)
(* succeed.                                                                *)
(***************************************************************************)

\* allocation granularity: sizeof(void*)
GRANULARITY == 8

\* sizeof(marena_rt_hdr_t): next, size, magic
SizeofRtHdr == 24

NullPtr == <<0, 0>>

\* rounding up to GRANULARITY bytes
ROUNDUP(x) == x + ((-x) % GRANULARITY)

\* Create arena chunk.
marena_create_chunk(size) == [size |-> ROUNDUP(size), allocated |-> 0]

\* Create memory arena object.
marena_create(size) ==
    [chunk_size |-> ROUNDUP(size),
     chunks |-> <<marena_create_chunk(ROUNDUP(size))>>,
     curr |-> 1, free |-> <<>>, hdr |-> <<>>]

\* The arena once the current chunk has room for size bytes or a further
\* chunk was entered: the next chunk of the list, emptied, or a new one.
\* Nothing compares size with the size of the chunk entered.
ChunkFor(ma, size) ==
    LET c == ma.chunks[ma.curr]
    IN  IF c.allocated + size <= c.size THEN ma
        ELSE IF ma.curr < Len(ma.chunks) THEN
            [ma EXCEPT !.curr = ma.curr + 1,
                       !.chunks[ma.curr + 1].allocated = 0]
        ELSE [ma EXCEPT !.curr = ma.curr + 1,
                        !.chunks = Append(ma.chunks,
                                          marena_create_chunk(ma.chunk_size))]

\* Allocate memory from arena: [ma, ptr].
marena_alloc(ma, size) ==
    LET sz == ROUNDUP(size)
        m == ChunkFor(ma, sz)
    IN  [ma |-> [m EXCEPT !.chunks[m.curr].allocated =
                              m.chunks[m.curr].allocated + sz],
         ptr |-> <<m.curr, m.chunks[m.curr].allocated>>]

\* Free all memory arena.
marena_free(ma) ==
    [ma EXCEPT !.curr = 1, !.chunks[1].allocated = 0, !.free = <<>>,
               !.hdr = <<>>]

\* The last block of the free list of at least size bytes, 0 when there is
\* none.
LastFit(ma, size, i) ==
    LET fits == {k \in i..Len(ma.free) : ma.hdr[ma.free[k]] >= size}
    IN  IF fits = {} THEN 0 ELSE CHOOSE k \in fits : \A j \in fits : j <= k

\* The place in the free list of the first block of at least size bytes,
\* 0 when there is none.
RECURSIVE FirstFit(_, _, _)
FirstFit(ma, size, i) ==
    IF i > Len(ma.free) THEN 0
    ELSE IF ma.hdr[ma.free[i]] >= size THEN i
    ELSE FirstFit(ma, size, i + 1)

\* The free list without its i-th block.
Unlink(free, i) == SubSeq(free, 1, i - 1) \o SubSeq(free, i + 1, Len(free))

\* The header at ptr stamped with size (next and magic are not kept).
Stamp(ma, ptr, size) == [ma EXCEPT !.hdr = (ptr :> size) @@ ma.hdr]

\* Allocate returnable block from memory arena: [ma, ptr].
marena_alloc_rt(ma, size) ==
    LET sz == ROUNDUP(size) + SizeofRtHdr
        i == FirstFit(ma, sz, 1)
        curr == ma.free[i]
        rest == ma.hdr[curr] - sz
        spl == <<curr[1], curr[2] + rest>>
        r == marena_alloc(ma, sz)
    IN  IF i = 0 THEN [ma |-> Stamp(r.ma, r.ptr, sz), ptr |-> r.ptr]
        ELSE IF ma.hdr[curr] >= 2 * sz THEN
            [ma |-> Stamp(Stamp(ma, curr, rest), spl, sz), ptr |-> spl]
        ELSE [ma |-> [ma EXCEPT !.free = Unlink(ma.free, i)], ptr |-> curr]

\* Resize returnable block: [ma, ptr].  The size with the header added is
\* handed to marena_alloc_rt, which adds the header once more.
marena_realloc_rt(ma, ptr, size) ==
    LET sz == ROUNDUP(size) + SizeofRtHdr
        r == marena_alloc_rt(ma, sz)
    IN  IF ma.hdr[ptr] >= sz THEN [ma |-> ma, ptr |-> ptr]
        ELSE [ma |-> [r.ma EXCEPT !.free = <<ptr>> \o r.ma.free],
              ptr |-> r.ptr]

\* Free returnable block.
marena_free_rt(ma, ptr) == [ma EXCEPT !.free = <<ptr>> \o ma.free]

(***************************************************************************)
(* The attribute name table.  A name pointer is an index into ant.names,   *)
(* the names copied into the arena; 0 is NULL.  Memory that the code       *)
(* leaves uninitialised and never reads holds 0.                           *)
(***************************************************************************)

\* n copies of v
Fill(n, v) == [i \in 1..n |-> v]

\* (ani_t)index: the conversion to the index type, an unsigned short.
AniCast(index) == index % 65536

\* Create attribute names table object.
ant_create ==
    [names |-> <<>>,
     an |-> Fill(8, 0), an_cnt |-> 1, an_cap |-> 8,
     ht_an |-> Fill(8 * 4, 0), ht_ani |-> Fill(8 * 4, 0), ht_size |-> 8 * 4]

\* One round of the hash over the 32-bit h, kept as its two 16-bit halves:
\* h = h * 7879 + (h >> 16) + byte   (mod 2^32)
HashRound(h, byte) ==
    LET low == h.lo * 7879 + h.hi + byte
    IN  [lo |-> low % 65536,
         hi |-> (h.hi * 7879 + (low \div 65536)) % 65536]

\* Calculate hash value of a string: the two halves of the 32-bit value.
ant_hash(str) ==
    LET round(h, k) == HashRound(h, str[k])
    IN  Loop(round, [hi |-> 0, lo |-> 0], 1, Len(str))

\* ant_hash(name) % size
HashSlot(str, size) ==
    LET h == ant_hash(str)
    IN  ((h.hi % size) * (65536 % size) + h.lo) % size

\* The slot where the probe for str, started at slot i, stops: the first
\* slot that is empty or (when match is set) holds a name equal to str.
RECURSIVE AntProbe(_, _, _, _)
AntProbe(ant, str, i, match) ==
    IF ant.ht_an[i + 1] = 0 THEN i
    ELSE IF match /\ ant.names[ant.ht_an[i + 1]] = str THEN i
    ELSE AntProbe(ant, str, IF i + 1 >= ant.ht_size THEN 0 ELSE i + 1, match)

\* Set hash table element: name is a name pointer.
ant_set(ant, name, index) ==
    LET i == AntProbe(ant, ant.names[name],
                      HashSlot(ant.names[name], ant.ht_size), FALSE)
    IN  [ant EXCEPT !.ht_an[i + 1] = name, !.ht_ani[i + 1] = AniCast(index)]

\* Find hash table element: the index of the name str, or -1.
ant_get(ant, str) ==
    LET i == AntProbe(ant, str, HashSlot(str, ant.ht_size), TRUE)
    IN  IF ant.ht_an[i + 1] = 0 THEN -1 ELSE ant.ht_ani[i + 1]

\* The rehashing loop: the used slots of the old table set into ant.
Rehash(ant, old_an, old_ani) ==
    LET move(a, k) ==
            IF old_an[k] # 0 THEN ant_set(a, old_an[k], old_ani[k]) ELSE a
    IN  Loop(move, ant, 1, Len(old_an))

\* A doubling that leaves the new hash table empty.
AntGrowNoRehash(ant) ==
    LET cap == ant.an_cap * 2
    IN  [ant EXCEPT !.an_cap = cap,
                    !.an = ant.an \o Fill(cap - Len(ant.an), 0),
                    !.ht_an = Fill(cap * 4, 0),
                    !.ht_ani = Fill(cap * 4, 0),
                    !.ht_size = cap * 4]

\* The name array and the hash table after doubling their capacity.
AntGrow(ant) ==
    LET cap == ant.an_cap * 2
        new == [ant EXCEPT !.an_cap = cap,
                           !.an = ant.an \o Fill(cap - Len(ant.an), 0),
                           !.ht_an = Fill(cap * 4, 0),
                           !.ht_ani = Fill(cap * 4, 0),
                           !.ht_size = cap * 4]
    IN  Rehash(new, ant.ht_an, ant.ht_ani)

\* A length test that lets a name of 64 bytes through.
NameTooLongOffByOne(len) == len > 64

\* `len >= sizeof(name)' for the buffer `char name[64]': the name and its
\* terminating 0 do not fit.
NameTooLong(len) == len >= 64

\* Add new or search for existing token: [ant, index], index -1 on error.
ant_add_token(ant, str) ==
    IF NameTooLong(Len(str)) THEN [ant |-> ant, index |-> -1]
    ELSE LET found == ant_get(ant, str)
         IN  IF found >= 0 THEN [ant |-> ant, index |-> found]
             ELSE
                LET a1 == [ant EXCEPT !.names = Append(ant.names, str)]
                    ptr == Len(a1.names)
                    a2 == IF a1.an_cnt >= a1.an_cap THEN AntGrow(a1) ELSE a1
                    index == a2.an_cnt
                    a3 == [a2 EXCEPT !.an_cnt = index + 1,
                                     !.an[index + 1] = ptr]
                IN  [ant |-> ant_set(a3, ptr, index), index |-> index]

(***************************************************************************)
(* Hash table for mapping between attribute name index and node array      *)
(* index.                                                                  *)
(***************************************************************************)

\* A hash table with as many slots as elements.
ht_createTight(cnt) ==
    [k |-> Fill(cnt, 0), v |-> Fill(cnt, 0), num |-> cnt, size |-> cnt]

\* Create hash table object.
ht_create(cnt) ==
    [k |-> Fill(cnt * 4, 0), v |-> Fill(cnt * 4, 0), num |-> cnt,
     size |-> cnt * 4]

\* The slot where the probe for key k, started at slot i, stops.
RECURSIVE HtProbe(_, _, _)
HtProbe(ht, k, i) ==
    IF ht.k[i + 1] = 0 \/ ht.k[i + 1] = k THEN i
    ELSE HtProbe(ht, k, IF i + 1 >= ht.size THEN 0 ELSE i + 1)

\* Set hash table element, leaving the value of a key that is already there.
ht_setKeepsFirst(ht, k, v) ==
    LET i == HtProbe(ht, k, k % ht.size)
    IN  IF ht.k[i + 1] = k THEN ht
        ELSE [ht EXCEPT !.k[i + 1] = k,
                        !.v[i + 1] = IF ht.num < 256 THEN v % 256
                                     ELSE AniCast(v)]

\* Set hash table element.
ht_set(ht, k, v) ==
    LET i == HtProbe(ht, k, k % ht.size)
    IN  [ht EXCEPT !.k[i + 1] = k,
                   !.v[i + 1] = IF ht.num < 256 THEN v % 256 ELSE AniCast(v)]

\* Find hash table element: [i, div0], i the array index or -1 when absent;
\* div0 says that `k % ht->size' divided by zero (the table has no slot).
ht_get(ht, k) ==
    IF ht.size = 0 THEN [i |-> -1, div0 |-> TRUE]
    ELSE LET i == HtProbe(ht, k, k % ht.size)
         IN  [i |-> IF ht.k[i + 1] = 0 THEN -1 ELSE ht.v[i + 1],
              div0 |-> FALSE]

(***************************************************************************)
(* Value conversions done at node construction.                            *)
(***************************************************************************)

IsDigit(byte) == byte \in 48..57

\* atoi's digit loop, accumulating the negated value so that INT_MIN fits:
\* [acc, ovf], ovf when the value left the range of int.
RECURSIVE AtoiDigits(_, _, _)
AtoiDigits(mem, i, acc) ==
    IF ~IsDigit(ByteAt(mem, i)) THEN [acc |-> acc, ovf |-> FALSE]
    ELSE LET d == ByteAt(mem, i) - 48
         IN  IF acc < -214748364 \/ (acc = -214748364 /\ d > 8)
             THEN [acc |-> acc, ovf |-> TRUE]
             ELSE AtoiDigits(mem, i + 1, acc * 10 - d)

\* atoi(mem + pos): [val, ovf].  It reads digits up to the first byte that
\* is no digit, wherever the token ended.  On overflow the behaviour is
\* undefined and val is any.
atoi(mem, pos, any) ==
    LET neg == ByteAt(mem, pos) = CH.minus
        sgn == neg \/ ByteAt(mem, pos) = CH.plus
        r == AtoiDigits(mem, IF sgn THEN pos + 1 ELSE pos, 0)
        ovf == r.ovf \/ (~neg /\ r.acc < -2147483647)
    IN  [val |-> IF ovf THEN any ELSE IF neg THEN r.acc ELSE -r.acc,
         ovf |-> ovf]

\* strtod(mem + pos): the double is kept as the decimal text strtod converts
\* (sign, digits, fraction, exponent), wherever the token ended.
strtod(mem, pos) ==
    LET lim == Len(mem)
        p0 == IF ByteAt(mem, pos) \in {CH.minus, CH.plus} THEN pos + 1
              ELSE pos
        p1 == SkipClass(mem, lim, p0, {"CNM"})
        p2 == IF ByteAt(mem, p1) = CH.dot
              THEN SkipClass(mem, lim, p1 + 1, {"CNM"}) ELSE p1
        mant == p2 - p0 - (IF ByteAt(mem, p1) = CH.dot THEN 1 ELSE 0) > 0
        pe == IF ByteAt(mem, p2 + 1) \in {CH.minus, CH.plus} THEN p2 + 2
              ELSE p2 + 1
        p3 == IF Or20(ByteAt(mem, p2)) = CH.e /\ IsDigit(ByteAt(mem, pe))
              THEN SkipClass(mem, lim, pe, {"CNM"}) ELSE p2
    IN  IF mant THEN SubSeq(mem, pos + 1, p3) ELSE <<>>

\* The size in bytes of the payload of the returnable block that
\* marena_realloc_rt hands back for a block of payload cap: the same block
\* when it is big enough, a fresh one (header added twice) otherwise.
ReallocPayload(cap, size) ==
    LET want == size + ((-size) % 8)
    IN  IF cap >= want THEN cap ELSE want + 24

\* Copy string from json to C: the loop of jp_read_str from source index
\* si on.  d is the destination written so far (di = Len(d)), dsize the
\* size asked for, cap the payload of the block; oob says that a byte was
\* written past the block.
RECURSIVE ReadStrLoop(_, _, _, _, _, _, _, _)
ReadStrLoop(mem, base, ssize, si, d, dsize, cap, oob) ==
    IF si >= ssize THEN
        [str |-> d, len |-> Len(d), oob |-> oob \/ Len(d) >= cap,
         dsize |-> dsize]
    ELSE
        LET grow == Len(d) >= dsize - 1
            dsz == IF grow THEN dsize * 2 ELSE dsize
            cp == IF grow THEN ReallocPayload(cap, dsz) ELSE cap
            c == ByteAt(mem, base + si)
            e == ByteAt(mem, base + si + 1)
            known == [x \in {CH.dq, CH.bslash, CH.slash} |-> x]
                     @@ (CH.b :> CH.bs) @@ (CH.f :> CH.ff) @@ (CH.n :> CH.lf)
                     @@ (CH.r :> CH.cr) @@ (CH.t :> CH.tab)
            out == IF c # CH.bslash THEN <<c>>
                   ELSE IF e \in DOMAIN known THEN <<known[e]>>
                   ELSE <<CH.bslash, e>>
        IN  ReadStrLoop(mem, base, ssize,
                        IF c # CH.bslash THEN si + 1 ELSE si + 2,
                        d \o out, dsz, cp,
                        oob \/ Len(d) + Len(out) > cp)

jp_read_str(p) ==
    ReadStrLoop(p.start, p.tokc.pos, p.tokc.len, 0, <<>>, 8, 8, FALSE)

(***************************************************************************)
(* Nodes, parser stack, node construction.                                 *)
(* A node pointer is an index into nodes; 0 is NULL and 1 is &none.        *)
(***************************************************************************)

\* Minimal size of arena allocator and of the writer's buffer.
JSON_MEM_MIN == 16 * 1024

\* Initial capacity of dynamic arrays.
JSON_CAP_MIN == 8

\* Minimal count of stack elements.
JSON_STACK_MIN == 16

\* A node after `memset(n, 0, ns); n->type = type'.  The fields of the C
\* union are kept apart; closed tells which member of the object node's
\* union {anis, ht} is the live one.
NewNode(type) ==
    [type |-> type, bool_val |-> FALSE, int_val |-> 0, dbl_val |-> <<>>,
     str_val |-> <<>>, str_len |-> 0, values |-> <<>>, count |-> 0,
     names |-> <<>>, anis |-> <<>>, ht |-> ht_create(0), closed |-> FALSE]

\* Json node for returning absent values (static, hence zeroed).
none == NewNode("JT_NONE")

Token(type, len, pos) == [type |-> type, len |-> len, pos |-> pos]

\* A stack element the parser has not written yet.
FreshFrame ==
    [tokp |-> Token("JINSTART", 0, 0), ctx |-> "CTXVAL", node |-> 0,
     node_cap |-> 0]

\* The stack element at the stack index; outside the stack the access is
\* undefined and reads as a fresh element.
Top(p) == IF p.sidx < p.ssize THEN p.stack[p.sidx + 1] ELSE FreshFrame

\* The stack with the element at the stack index replaced; a write outside
\* the stack leaves the stack as it is (and is recorded by the caller).
SetTop(p, frame) ==
    IF p.sidx < p.ssize THEN [p EXCEPT !.stack[p.sidx + 1] = frame] ELSE p

\* A reallocation that hands back the bigger block without copying the old
\* slots into it.
GrowSlotsNoCopy(slots, cap) == Fill(cap, 0)

\* A slot vector after marena_realloc_rt to cap slots: the old slots first.
GrowSlots(slots, cap) ==
    IF Len(slots) >= cap THEN slots ELSE slots \o Fill(cap - Len(slots), 0)

\* Slot i (a C index) of a slot vector written with v; a write past the
\* vector is lost.
Poke(slots, i, v) ==
    IF 0 <= i /\ i < Len(slots) THEN [slots EXCEPT ![i + 1] = v] ELSE slots

\* Slot i (a C index) of a slot vector; past the vector it reads NULL.
Peek(slots, i) == IF 0 <= i /\ i < Len(slots) THEN slots[i + 1] ELSE 0

\* Add node to current array node: [p, nodes, oob].
jp_add_elt(p, nd, node) ==
    LET s == Top(p)
        n == nd[s.node]
        grow == n.count >= s.node_cap
        cap == IF grow THEN s.node_cap * 2 ELSE s.node_cap
        vals == IF grow THEN GrowSlots(n.values, cap) ELSE n.values
    IN  [p |-> SetTop(p, [s EXCEPT !.node_cap = cap]),
         nodes |-> [nd EXCEPT ![s.node].values = Poke(vals, n.count, node),
                              ![s.node].count = n.count + 1],
         oob |-> n.count >= Len(vals)]

\* Add attribute name to current object node: [p, nodes, oob].
jp_add_attr(p, nd, index) ==
    LET s == Top(p)
        n == nd[s.node]
        grow == n.count >= s.node_cap
        cap == IF grow THEN s.node_cap * 2 ELSE s.node_cap
        anis == IF grow THEN GrowSlots(n.anis, cap) ELSE n.anis
        vals == IF grow THEN GrowSlots(n.values, cap) ELSE n.values
    IN  [p |-> SetTop(p, [s EXCEPT !.node_cap = cap]),
         nodes |-> [nd EXCEPT ![s.node].anis = Poke(anis, n.count, index),
                              ![s.node].values = Poke(vals, n.count, 0),
                              ![s.node].count = n.count + 1],
         oob |-> n.count >= Len(vals)]

\* The per-object hash table filled from the name indexes anis[0..count-1].
HtFill(ht, anis, count) ==
    LET set(h, i) == ht_set(h, Peek(anis, i), i)
    IN  Loop(set, ht, 0, count - 1)

\* Finish creation of object node: the nodes.
jp_obj_end(p, nd) ==
    LET s == Top(p)
        n == nd[s.node]
    IN  [nd EXCEPT
            ![s.node].names = [i \in 1..n.count |->
                                  Peek(p.ant.an, Peek(n.anis, i - 1))],
            ![s.node].ht = HtFill(ht_create(n.count), n.anis, n.count),
            ![s.node].anis = <<>>,
            ![s.node].closed = TRUE]

\* The node of the given type with its value set from the current token:
\* [node, ub], ub the undefined behaviours of the conversion.
NodeValue(p, type, any) ==
    LET n == NewNode(type)
        mem == p.start
        pos == p.tokc.pos
    IN  IF type = "JT_BOOL" THEN
            [node |-> [n EXCEPT !.bool_val = (Or20(ByteAt(mem, pos)) = CH.t)],
             ub |-> {}]
        ELSE IF type = "JT_INT" THEN
            LET r == atoi(mem, pos, any)
            IN  [node |-> [n EXCEPT !.int_val = r.val],
                 ub |-> IF r.ovf THEN {"atoi_overflow"} ELSE {}]
        ELSE IF type = "JT_DBL" THEN
            [node |-> [n EXCEPT !.dbl_val = strtod(mem, pos)], ub |-> {}]
        ELSE IF type = "JT_STR" THEN
            LET r == jp_read_str(p)
            IN  [node |-> [n EXCEPT !.str_val = r.str, !.str_len = r.len],
                 ub |-> IF r.oob THEN {"str_overflow"} ELSE {}]
        ELSE IF type = "JT_ARR" THEN
            [node |-> [n EXCEPT !.values = Fill(JSON_CAP_MIN, 0)], ub |-> {}]
        ELSE IF type = "JT_OBJ" THEN
            [node |-> [n EXCEPT !.values = Fill(JSON_CAP_MIN, 0),
                                !.anis = Fill(JSON_CAP_MIN, 0)],
             ub |-> {}]
        ELSE [node |-> n, ub |-> {}]

\* A wiring that takes an element of an array after any token.
WireNodeAfterAny(p, nd, rt, v) ==
    LET n == Len(nd) + 1
        nd1 == Append(nd, v.node)
        s == Top(p)
        t == s.tokp.type
        refused == [p |-> p, nodes |-> nd1, root |-> rt, n |-> 0, ub |-> v.ub]
    IN  IF s.ctx = "CTXVAL" THEN
            IF t # "JINSTART" THEN refused
            ELSE [refused EXCEPT !.root = n, !.n = n]
        ELSE IF s.ctx = "CTXARR" THEN
            LET r == jp_add_elt(p, nd1, n)
            IN  [p |-> r.p, nodes |-> r.nodes, root |-> rt, n |-> n,
                 ub |-> v.ub \cup (IF r.oob THEN {"slot_overflow"}
                                   ELSE {})]
        ELSE
            IF t # "JNAME" THEN refused
            ELSE [refused EXCEPT
                    !.n = n,
                    !.nodes[s.node].values =
                        Poke(nd1[s.node].values, nd1[s.node].count - 1, n)]

\* The wiring of jp_new_node: the node v.node, just built, is stored to
\* the parent node or set as the root node.
WireNode(p, nd, rt, v) ==
    LET n == Len(nd) + 1
        nd1 == Append(nd, v.node)
        s == Top(p)
        t == s.tokp.type
        refused == [p |-> p, nodes |-> nd1, root |-> rt, n |-> 0, ub |-> v.ub]
    IN  IF s.ctx = "CTXVAL" THEN
            IF t # "JINSTART" THEN refused
            ELSE [refused EXCEPT !.root = n, !.n = n]
        ELSE IF s.ctx = "CTXARR" THEN
            IF t \notin {"JASTART", "JCOMMA"} THEN refused
            ELSE LET r == jp_add_elt(p, nd1, n)
                 IN  [p |-> r.p, nodes |-> r.nodes, root |-> rt, n |-> n,
                      ub |-> v.ub \cup (IF r.oob THEN {"slot_overflow"}
                                        ELSE {})]
        ELSE
            IF t # "JNAME" THEN refused
            ELSE [refused EXCEPT
                    !.n = n,
                    !.nodes[s.node].values =
                        Poke(nd1[s.node].values, nd1[s.node].count - 1, n)]

\* Create new json node and store it to the parent node or set it as the
\* root node: [p, nodes, root, n, ub], n = 0 (NULL) when the node is refused.
jp_new_node(p, nd, rt, type, any) ==
    WireNode(p, nd, rt, NodeValue(p, type, any))

(***************************************************************************)
(* The allocations of the parser.  p.mem is the arena and p.ptr the        *)
(* returnable blocks the parser's objects point to: <<"an", 0>>,           *)
(* <<"ht_an", 0>> and <<"ht_ani", 0>> of the name table, <<"values", n>>,  *)
(* <<"anis", n>> and <<"str", n>> of node n.  Every request is answered    *)
(* (see the arena), so that the parser never takes its `no memory' exits.  *)
(***************************************************************************)

\* sizeof(jnode_t)
SizeofNode == 32

\* sizeof(jnode_obj_t)
SizeofNodeObj == 48

\* sizeof(ant_t)
SizeofAnt == 48

\* sizeof(ht_t)
SizeofHt == 24

\* sizeof(ani_t)
SizeofAni == 2

\* marena_alloc(jp->mem, size), the pointer dropped.  Here and below the
\* parser is bound to its value q before the arena is entered, so that a
\* chain of allocations is evaluated once, in the order of the calls.
Alloc(p, size) ==
    CHOOSE x \in {[q EXCEPT !.mem = marena_alloc(q.mem, size).ma] :
                     q \in {p}} : TRUE

\* The parser after its object `key' took the block r.ptr.
Points(p, key, r) == [p EXCEPT !.mem = r.ma, !.ptr = (key :> r.ptr) @@ p.ptr]

\* key = marena_alloc_rt(jp->mem, size)
AllocRt(p, key, size) ==
    CHOOSE x \in {Points(q, key, marena_alloc_rt(q.mem, size)) :
                     q \in {p}} : TRUE

\* key = marena_realloc_rt(jp->mem, key, size)
ReallocRt(p, key, size) ==
    CHOOSE x \in {Points(q, key, marena_realloc_rt(q.mem, q.ptr[key], size)) :
                     q \in {p}} : TRUE

\* marena_free_rt(jp->mem, ptr)
FreeRt(p, ptr) ==
    CHOOSE x \in {[q EXCEPT !.mem = marena_free_rt(q.mem, ptr)] :
                     q \in {p}} : TRUE

\* The allocations of ant_create, for the table p.ant it built.
AntCreateMem(p) ==
    LET a == Alloc(p, SizeofAnt)
        b == AllocRt(a, <<"an", 0>>, p.ant.an_cap * GRANULARITY)
        c == AllocRt(b, <<"ht_an", 0>>, p.ant.ht_size * GRANULARITY)
    IN  AllocRt(c, <<"ht_ani", 0>>, p.ant.ht_size * SizeofAni)

\* The allocations of ant_add_token for a new name of len bytes; grown says
\* that the array and the hash table were resized to p.ant.
AntAddMem(p, len, grown) ==
    LET a == Alloc(p, len + 1)
        b == ReallocRt(a, <<"an", 0>>, p.ant.an_cap * GRANULARITY)
        c == AllocRt(b, <<"ht_an", 0>>, p.ant.ht_size * GRANULARITY)
        d == AllocRt(c, <<"ht_ani", 0>>, p.ant.ht_size * SizeofAni)
    IN  IF ~grown THEN a
        ELSE FreeRt(FreeRt(d, p.ptr[<<"ht_an", 0>>]), p.ptr[<<"ht_ani", 0>>])

\* The reallocations of jp_read_str: the size doubles from dsize up to last.
RECURSIVE StrGrowMem(_, _, _, _)
StrGrowMem(p, key, dsize, last) ==
    IF dsize >= last THEN p
    ELSE StrGrowMem(ReallocRt(p, key, dsize * 2), key, dsize * 2, last)

\* The allocations of jp_new_node for node n of the given type, before the
\* node is wired; last is the final size of the string buffer.
NodeMem(p, n, type, last) ==
    LET vals(q) == AllocRt(q, <<"values", n>>, JSON_CAP_MIN * GRANULARITY)
    IN  IF type = "JT_STR" THEN
            StrGrowMem(AllocRt(Alloc(p, SizeofNode), <<"str", n>>, 8),
                       <<"str", n>>, 8, last)
        ELSE IF type = "JT_ARR" THEN vals(Alloc(p, SizeofNode))
        ELSE IF type = "JT_OBJ" THEN
            AllocRt(vals(Alloc(p, SizeofNodeObj)), <<"anis", n>>,
                    JSON_CAP_MIN * SizeofAni)
        ELSE Alloc(p, SizeofNode)

\* The reallocation of jp_add_elt when the array node grew to cap slots.
AddEltMem(p, node, cap) == ReallocRt(p, <<"values", node>>, cap * GRANULARITY)

\* The reallocations of jp_add_attr when the object node grew to cap slots.
AddAttrMem(p, node, cap) ==
    ReallocRt(ReallocRt(p, <<"anis", node>>, cap * SizeofAni),
              <<"values", node>>, cap * GRANULARITY)

\* The allocations of ht_create.
HtCreateMem(p, cnt) ==
    Alloc(Alloc(Alloc(p, SizeofHt), cnt * 4 * SizeofAni),
          cnt * 4 * (IF cnt < 256 THEN 1 ELSE SizeofAni))

\* The allocations of jp_obj_end for the object node of count attributes.
ObjEndMem(p, node, count) ==
    FreeRt(HtCreateMem(Alloc(p, count * GRANULARITY), count),
           p.ptr[<<"anis", node>>])

\* The token type -> node type of the scalar cases of the switch.
ScalarType ==
    [JNULL |-> "JT_NULL", JBOOL |-> "JT_BOOL", JINT |-> "JT_INT",
     JDBL |-> "JT_DBL", JSTR |-> "JT_STR"]

\* The parser r.p after the allocations of the iteration that led from p1
\* (the parser after jp_next) and the nodes nd to r.
StepMem(p1, nd, r) ==
    LET tt == p1.tokc.type
        s == Top(p1)
        n == Len(nd) + 1
        cap == Top([r.p EXCEPT !.sidx = p1.sidx]).node_cap
        grown == cap # s.node_cap
        wired(q) == IF grown THEN AddEltMem(q, s.node, cap) ELSE q
        last == IF tt = "JSTR" THEN jp_read_str(p1).dsize ELSE 0
        named(q) == IF grown THEN AddAttrMem(q, s.node, cap) ELSE q
    IN  IF tt \in DOMAIN ScalarType THEN
            wired(NodeMem(r.p, n, ScalarType[tt], last))
        ELSE IF tt = "JASTART" THEN wired(NodeMem(r.p, n, "JT_ARR", 0))
        ELSE IF tt = "JOSTART" THEN wired(NodeMem(r.p, n, "JT_OBJ", 0))
        ELSE IF tt = "JNAME" /\ r.p.ant.an_cnt > p1.ant.an_cnt THEN
            named(AntAddMem(r.p, p1.tokc.len,
                            r.p.ant.an_cap > p1.ant.an_cap))
        ELSE IF tt = "JNAME" THEN named(r.p)
        ELSE IF tt = "JOEND" /\ s.ctx = "CTXOBJ"
                /\ r.nodes[s.node].closed /\ ~nd[s.node].closed THEN
            ObjEndMem(r.p, s.node, nd[s.node].count)
        ELSE r.p

(***************************************************************************)
(* The parser driver.                                                      *)
(***************************************************************************)

\* An entry of jp_parse that leaves the stack index where the earlier parse
\* left it.
ParseEntryKeepsDepth(p, mem, len) ==
    AntCreateMem([p EXCEPT !.mem = marena_free(p.mem), !.ptr = <<>>,
                           !.start = mem, !.len = len, !.pos = 0,
                           !.ant = ant_create,
                           !.tokc = Token("JINSTART", 0, 0),
                           !.stack[1].ctx = "CTXVAL"])

\* The parser state at the entry of jp_parse's loop, for a document of len
\* bytes at the start of mem: the arena reset, a fresh name table in it,
\* the first stack element in value context.  The other stack elements and
\* the chunks of the arena keep what they held.
ParseEntry(p, mem, len) ==
    AntCreateMem([p EXCEPT !.mem = marena_free(p.mem), !.ptr = <<>>,
                           !.start = mem, !.len = len, !.pos = 0,
                           !.ant = ant_create,
                           !.tokc = Token("JINSTART", 0, 0), !.sidx = 0,
                           !.stack[1].ctx = "CTXVAL"])

\* A depth test that lets the stack index reach the size of the stack.
StackFullOffByOne(p) == p.sidx > p.ssize

\* `++jp->sidx >= jp->ssize', after the increment.
StackFull(p) == p.sidx >= p.ssize

\* What an iteration of the loop does after jp_new_node returned r: it
\* leaves by `error' when the node was refused.
AfterNode(r) ==
    [p |-> r.p, nodes |-> r.nodes, root |-> r.root, ub |-> r.ub,
     ret |-> IF r.n = 0 THEN -1 ELSE 1]

\* The push of a stack element for the container node that jp_new_node
\* returned in r.
PushFrame(r, ctx) ==
    LET p2 == [r.p EXCEPT !.sidx = r.p.sidx + 1]
        p3 == SetTop(p2, [Top(p2) EXCEPT !.node = r.n,
                                         !.node_cap = JSON_CAP_MIN,
                                         !.ctx = ctx])
    IN  IF r.n = 0 THEN AfterNode(r)
        ELSE IF StackFull(p2) THEN [AfterNode(r) EXCEPT !.p = p2, !.ret = -1]
        ELSE [AfterNode(r) EXCEPT
                !.p = p3,
                !.ub = r.ub \cup (IF p2.sidx >= p2.ssize
                                  THEN {"stack_overflow"} ELSE {})]

\* A container start: the node is built and wired, then a stack element is
\* pushed for it.
ContainerStart(p1, nd, rt, type, ctx, any) ==
    PushFrame(jp_new_node(p1, nd, rt, type, any), ctx)

\* The attribute name case, the name table having answered a.
NameStep(p1, nd, rt, a) ==
    LET r == jp_add_attr([p1 EXCEPT !.ant = a.ant], nd, AniCast(a.index))
    IN  IF a.index < 0 THEN
            [p |-> p1, nodes |-> nd, root |-> rt, ub |-> {}, ret |-> -1]
        ELSE [p |-> r.p, nodes |-> r.nodes, root |-> rt,
              ub |-> IF r.oob THEN {"slot_overflow"} ELSE {}, ret |-> 1]

\* A test of the previous token that no token type passes.
AfterCommaNever(t) == FALSE

\* `t == JCOMMA' of the cases JAEND and JOEND: the closing bracket comes
\* right after a comma.
AfterComma(t) == t = "JCOMMA"

\* A test of the previous token that lets every object end.
DanglingNever(t) == FALSE

\* `t == JCOMMA || t == JNAME' of the case JOEND: the object ends behind a
\* comma or behind a name that has no value.
Dangling(t) == AfterComma(t) \/ t = "JNAME"

\* The switch of the loop of jp_parse: t is the type of the previous token,
\* p1 the parser after jp_next.
ParseSwitch(t, p1, nd, rt, any) ==
    LET s == Top(p1)
        tt == p1.tokc.type
        stop(code) ==
            [p |-> p1, nodes |-> nd, root |-> rt, ub |-> {}, ret |-> code]
        go(pp, nn) ==
            [p |-> pp, nodes |-> nn, root |-> rt, ub |-> {}, ret |-> 1]
        pop == [p1 EXCEPT !.sidx = p1.sidx - 1]
    IN  IF tt = "JINEND" THEN
            IF s.ctx # "CTXVAL" THEN stop(-1)
            ELSE IF t = "JINSTART" THEN stop(-1)
            ELSE stop(0)
        ELSE IF tt = "JASTART" THEN
            ContainerStart(p1, nd, rt, "JT_ARR", "CTXARR", any)
        ELSE IF tt = "JOSTART" THEN
            ContainerStart(p1, nd, rt, "JT_OBJ", "CTXOBJ", any)
        ELSE IF tt = "JAEND" THEN
            IF s.ctx # "CTXARR" THEN stop(-1)
            ELSE IF AfterComma(t) THEN stop(-1)
            ELSE IF p1.sidx = 0 THEN stop(-1)
            ELSE go(pop, nd)
        ELSE IF tt = "JOEND" THEN
            IF s.ctx # "CTXOBJ" THEN stop(-1)
            ELSE IF Dangling(t) THEN stop(-1)
            ELSE [p |-> IF p1.sidx = 0 THEN p1 ELSE pop,
                  nodes |-> jp_obj_end(p1, nd), root |-> rt, ub |-> {},
                  ret |-> IF p1.sidx = 0 THEN -1 ELSE 1]
        ELSE IF tt = "JCOMMA" THEN
            IF s.ctx = "CTXVAL" THEN stop(-1)
            ELSE IF s.ctx = "CTXARR" THEN
                IF t = "JASTART" THEN stop(-1) ELSE go(p1, nd)
            ELSE
                IF t \in {"JOSTART", "JNAME"} THEN stop(-1) ELSE go(p1, nd)
        ELSE IF tt \in DOMAIN ScalarType THEN
            AfterNode(jp_new_node(p1, nd, rt, ScalarType[tt], any))
        ELSE IF tt = "JNAME" THEN
            IF s.ctx # "CTXOBJ" THEN stop(-1)
            ELSE IF t \notin {"JOSTART", "JCOMMA"} THEN stop(-1)
            ELSE NameStep(p1, nd, rt,
                          ant_add_token(p1.ant,
                                        SubSeq(p1.start, p1.tokc.pos + 1,
                                               p1.tokc.pos + p1.tokc.len)))
        ELSE stop(-1)

\* One iteration of the loop of jp_parse: [p, nodes, root, ub, ret], ret
\* being 0 or -1 when the iteration returns and 1 when the loop goes on.
\* The current token is saved to the stack element, then the next is read.
ParseStep(p, nd, rt, any) ==
    LET p1 == jp_next(SetTop(p, [Top(p) EXCEPT !.tokp = p.tokc]))
    IN  CHOOSE x \in {[r EXCEPT !.p = StepMem(p1, nd, r)] :
                         r \in {ParseSwitch(p.tokc.type, p1, nd, rt, any)}} :
            TRUE

\* The loop of jp_parse run to its return from the parser p at its entry:
\* [p, nodes, root, ub, ret].  Every iteration but the last reads a token,
\* hence there are at most p.len + 1 of them.
ParseLoop(p, any) ==
    LET iter(r, k) ==
            IF r.ret # 1 THEN r
            ELSE LET n == ParseStep(r.p, r.nodes, r.root, any)
                 IN  [n EXCEPT !.ub = r.ub \cup n.ub]
    IN  Loop(iter, [p |-> p, nodes |-> <<none>>, root |-> 1, ub |-> {},
                    ret |-> 1],
             0, p.len)

\* jp_parse(p, &root, mem, len) as a whole.
jp_parse(p, mem, len, any) == ParseLoop(ParseEntry(p, mem, len), any)

(***************************************************************************)
(* The node accessors.                                                     *)
(***************************************************************************)

\* Get node from array node by index.
jn_elt(nd, node, i) ==
    IF nd[node].type # "JT_ARR" THEN 1
    ELSE IF ~(0 <= i /\ i < nd[node].count) THEN 1
    ELSE Peek(nd[node].values, i)

\* The part of jn_attr that follows the lookup of the name, i being the
\* attribute name index that ant_get returned: [n, ub].
AttrAt(nd, node, i) ==
    LET r == ht_get(nd[node].ht, AniCast(i))
    IN  IF i < 0 THEN [n |-> 1, ub |-> {}]
        ELSE IF ~nd[node].closed THEN [n |-> 1, ub |-> {"union_misread"}]
        ELSE IF r.div0 THEN [n |-> 1, ub |-> {"div0"}]
        ELSE IF r.i < 0 THEN [n |-> 1, ub |-> {}]
        ELSE [n |-> Peek(nd[node].values, r.i), ub |-> {}]

\* Get node from object node by attribute name: [n, ub].  When ub is not
\* empty the call is undefined and n means nothing.
jn_attr(nd, ant, node, name) ==
    IF nd[node].type # "JT_OBJ" THEN [n |-> 1, ub |-> {}]
    ELSE AttrAt(nd, node, ant_get(ant, name))

(***************************************************************************)
(* Creation of the parser.                                                 *)
(***************************************************************************)

\* The parser object after jp_create(&jp, 0, stack): zeroed, with a stack
\* of at least JSON_STACK_MIN elements and an arena of one chunk of
\* JSON_MEM_MIN bytes, the amount that mem = 0 asks for.
jp_create(stack) ==
    LET ssize == IF stack < JSON_STACK_MIN THEN JSON_STACK_MIN ELSE stack
    IN  [start |-> <<>>, len |-> 0, pos |-> 0,
         mem |-> marena_create(JSON_MEM_MIN), ptr |-> <<>>,
         ant |-> [names |-> <<>>, an |-> <<>>, an_cnt |-> 0, an_cap |-> 0,
                  ht_an |-> <<>>, ht_ani |-> <<>>, ht_size |-> 0],
         tokc |-> Token("JINSTART", 0, 0),
         sidx |-> 0, stack |-> Fill(ssize, FreshFrame), ssize |-> ssize]

(***************************************************************************)
(* The writer.  w.start holds the bytes of the buffer that were written    *)
(* at some time (what lies behind them is uninitialised).                  *)
(***************************************************************************)

\* The name argument NULL (no byte string).
NullName == <<-1>>

Min(x, y) == IF x <= y THEN x ELSE y

\* The buffer with bytes stored from C index pos on.
Store(buf, pos, bytes) ==
    SubSeq(buf, 1, pos) \o bytes
        \o SubSeq(buf, pos + Len(bytes) + 1, Len(buf))

\* Create json writer object.  The stack is not initialised (it reads as what
\* jw_begin will store): no writer call comes before jw_begin.
jw_create(mem, stack) ==
    LET ssize == IF stack < JSON_STACK_MIN THEN JSON_STACK_MIN ELSE stack
    IN  [start |-> <<>>, len |-> IF mem < JSON_MEM_MIN THEN JSON_MEM_MIN
                                 ELSE mem,
         pos |-> 0, err |-> 0,
         stack |-> Fill(ssize, [ctx |-> "CTXVAL", tt |-> "JINSTART"]),
         ssize |-> ssize, sidx |-> 0]

\* A jw_strz that stores up to the last byte of the buffer.
jw_strzToEnd(w, str) ==
    LET room == IF w.len - w.pos > 0 THEN w.len - w.pos ELSE 0
        k == Min(Len(str), room)
    IN  [w EXCEPT !.start = Store(w.start, w.pos, SubSeq(str, 1, k)),
                  !.pos = w.pos + k,
                  !.err = IF k < Len(str) THEN 1 ELSE w.err]

\* Write zero-terminated string to json buffer: the bytes that fit before
\* the last byte of the buffer; the error flag when one does not.
jw_strz(w, str) ==
    LET room == IF w.len - 1 - w.pos > 0 THEN w.len - 1 - w.pos ELSE 0
        k == Min(Len(str), room)
    IN  [w EXCEPT !.start = Store(w.start, w.pos, SubSeq(str, 1, k)),
                  !.pos = w.pos + k,
                  !.err = IF k < Len(str) THEN 1 ELSE w.err]

\* Write the text that the format string produced, as vsnprintf does with
\* a buffer of size bytes: at most size - 1 bytes of it and a NUL.
jw_printf(w, text) ==
    LET size == w.len - w.pos - 1
        put == IF size > 0 THEN SubSeq(text, 1, Min(Len(text), size - 1))
                                \o <<CH.nul>>
               ELSE <<>>
    IN  [w EXCEPT !.start = Store(w.start, w.pos, put),
                  !.pos = w.pos + Min(Len(text), size),
                  !.err = IF Len(text) > size THEN 1 ELSE w.err]

\* The decimal digits of the magnitude of a value v <= 0, as the conversion
\* `%d' produces them; taken on the negative side so that INT_MIN converts.
RECURSIVE NegDigits(_)
NegDigits(v) ==
    LET d == (10 - (v % 10)) % 10
        q == (v + d) \div 10
    IN  (IF q = 0 THEN <<>> ELSE NegDigits(q)) \o <<48 + d>>

\* The text of printf("%d", val).
FormatInt(val) ==
    IF val < 0 THEN <<CH.minus>> \o NegDigits(val) ELSE NegDigits(-val)

\* A preparation that takes any name in any context: the tests of the name
\* are left out.
jw_prepvAnyName(w, name) ==
    LET s == w.stack[w.sidx + 1]
        comma == jw_strz(w, <<CH.comma>>)
        w1 == IF s.ctx = "CTXVAL" THEN
                  IF s.tt # "JINSTART" THEN [w EXCEPT !.err = 1] ELSE w
              ELSE IF s.ctx = "CTXARR" THEN
                  IF s.tt # "JASTART" THEN comma ELSE w
              ELSE
                  jw_printf(IF s.tt # "JOSTART" THEN comma ELSE w,
                            <<CH.dq>> \o name \o <<CH.dq, CH.colon>>)
    IN  [w |-> w1, rc |-> w1.err]

\* A preparation that writes no comma between the elements of an array.
jw_prepvNoComma(w, name) ==
    LET s == w.stack[w.sidx + 1]
        bad == [w EXCEPT !.err = 1]
        comma == jw_strz(w, <<CH.comma>>)
        w1 == IF s.ctx = "CTXVAL" THEN
                  IF s.tt # "JINSTART" THEN bad ELSE w
              ELSE IF s.ctx = "CTXARR" THEN w
              ELSE
                  jw_printf(IF s.tt # "JOSTART" THEN comma ELSE w,
                            <<CH.dq>> \o name \o <<CH.dq, CH.colon>>)
    IN  IF s.ctx = "CTXOBJ" /\ name = NullName THEN [w |-> bad, rc |-> -1]
        ELSE IF s.ctx # "CTXOBJ" /\ name # NullName THEN
            [w |-> bad, rc |-> -1]
        ELSE [w |-> w1, rc |-> w1.err]

\* Prepare for writing a value to json string: [w, rc].
jw_prepv(w, name) ==
    LET s == w.stack[w.sidx + 1]
        bad == [w EXCEPT !.err = 1]
        comma == jw_strz(w, <<CH.comma>>)
        w1 == IF s.ctx = "CTXVAL" THEN
                  IF s.tt # "JINSTART" THEN bad ELSE w
              ELSE IF s.ctx = "CTXARR" THEN
                  IF s.tt # "JASTART" THEN comma ELSE w
              ELSE
                  jw_printf(IF s.tt # "JOSTART" THEN comma ELSE w,
                            <<CH.dq>> \o name \o <<CH.dq, CH.colon>>)
    IN  IF s.ctx = "CTXOBJ" /\ name = NullName THEN [w |-> bad, rc |-> -1]
        ELSE IF s.ctx # "CTXOBJ" /\ name # NullName THEN
            [w |-> bad, rc |-> -1]
        ELSE [w |-> w1, rc |-> w1.err]

\* The stack element at the stack index with its token type set.
SetTT(w, tt) == [w EXCEPT !.stack[w.sidx + 1].tt = tt]

\* Begin json writing.
jw_begin(w) ==
    [w EXCEPT !.pos = 0, !.err = 0, !.sidx = 0,
              !.stack[1] = [ctx |-> "CTXVAL", tt |-> "JINSTART"]]

\* A jw_get that returns 0 whenever it hands out the string.
jw_getIgnoresErr(w) ==
    IF w.pos >= w.len THEN [w |-> w, rc |-> -1, set |-> FALSE]
    ELSE IF w.stack[w.sidx + 1].ctx # "CTXVAL" THEN
        [w |-> w, rc |-> -1, set |-> FALSE]
    ELSE [w |-> [w EXCEPT !.start = Store(w.start, w.pos, <<CH.nul>>)],
          rc |-> 0, set |-> TRUE]

\* A jw_get without the test of the context of the current stack element.
jw_getAnyFrame(w) ==
    IF w.pos >= w.len THEN [w |-> w, rc |-> -1, set |-> FALSE]
    ELSE [w |-> [w EXCEPT !.start = Store(w.start, w.pos, <<CH.nul>>)],
          rc |-> w.err, set |-> TRUE]

\* Get written json string: [w, rc, set], set telling whether *str and
\* *size were stored.
jw_get(w) ==
    IF w.pos >= w.len THEN [w |-> w, rc |-> -1, set |-> FALSE]
    ELSE IF w.stack[w.sidx + 1].ctx # "CTXVAL" THEN
        [w |-> w, rc |-> -1, set |-> FALSE]
    ELSE [w |-> [w EXCEPT !.start = Store(w.start, w.pos, <<CH.nul>>)],
          rc |-> w.err, set |-> TRUE]

\* Write null value to json writer.
jw_null(w, name) ==
    LET r == jw_prepv(w, name)
    IN  IF r.rc # 0 THEN r.w
        ELSE SetTT(jw_strz(r.w, <<CH.n, CH.u, CH.l, CH.l>>), "JNULL")

\* Write boolean value to json writer.
jw_bool(w, val, name) ==
    LET r == jw_prepv(w, name)
    IN  IF r.rc # 0 THEN r.w
        ELSE SetTT(jw_strz(r.w, IF val THEN <<CH.t, CH.r, CH.u, CH.e>>
                                ELSE <<CH.f, CH.a, CH.l, CH.s, CH.e>>),
                   "JBOOL")

\* Write integer value to json writer.
jw_int(w, val, name) ==
    LET r == jw_prepv(w, name)
    IN  IF r.rc # 0 THEN r.w
        ELSE SetTT(jw_printf(r.w, FormatInt(val)), "JINT")

\* The text of printf("%f", val) for a double val whose value is an integer
\* that an int holds: six zeros behind the point.
FormatDbl(val) ==
    FormatInt(val) \o <<CH.dot, CH.d0, CH.d0, CH.d0, CH.d0, CH.d0, CH.d0>>

\* Write double value to json writer (val: a double with an integer value).
jw_dbl(w, val, name) ==
    LET r == jw_prepv(w, name)
    IN  IF r.rc # 0 THEN r.w
        ELSE SetTT(jw_printf(r.w, FormatDbl(val)), "JDBL")

\* The text of printf("%.*f", prec, val) for a double val whose value is an
\* integer that an int holds: prec zeros behind the point, no point for
\* the precision 0, the precision 6 for a negative one.
FormatDblPrec(val, prec) ==
    IF prec < 0 THEN FormatDbl(val)
    ELSE IF prec = 0 THEN FormatInt(val)
    ELSE FormatInt(val) \o <<CH.dot>> \o [i \in 1..prec |-> CH.d0]

\* Write double value with specified precision to json writer (val: a
\* double with an integer value).
jw_dbl_prec(w, val, prec, name) ==
    LET r == jw_prepv(w, name)
    IN  IF r.rc # 0 THEN r.w
        ELSE SetTT(jw_printf(r.w, FormatDblPrec(val, prec)), "JDBL")

\* The escape sequences of jw_str: byte -> the two bytes written for it.
Escapes ==
    (CH.dq :> <<CH.bslash, CH.dq>>) @@ (CH.bslash :> <<CH.bslash, CH.bslash>>)
    @@ (CH.slash :> <<CH.bslash, CH.slash>>) @@ (CH.bs :> <<CH.bslash, CH.b>>)
    @@ (CH.ff :> <<CH.bslash, CH.f>>) @@ (CH.lf :> <<CH.bslash, CH.n>>)
    @@ (CH.cr :> <<CH.bslash, CH.r>>) @@ (CH.tab :> <<CH.bslash, CH.t>>)

\* The loop of jw_str over str[i..] (C index i), size being its bound:
\* [w, cut], cut when the loop left the function on a full buffer.
RECURSIVE StrLoop(_, _, _, _)
StrLoop(w, str, i, size) ==
    IF i >= size \/ i >= Len(str) THEN [w |-> w, cut |-> FALSE]
    ELSE LET c == str[i + 1]
         IN  IF c \in DOMAIN Escapes THEN
                 StrLoop(jw_strz(w, Escapes[c]), str, i + 1, size)
             ELSE IF w.pos >= w.len - 1 THEN
                 [w |-> [w EXCEPT !.err = 1], cut |-> TRUE]
             ELSE StrLoop([w EXCEPT !.start = Store(w.start, w.pos, <<c>>),
                                    !.pos = w.pos + 1],
                          str, i + 1, size)

\* Write string value to json writer.
jw_str(w, str, name) ==
    LET r == jw_prepv(w, name)
        w1 == jw_strz(r.w, <<CH.dq>>)
        l == StrLoop(w1, str, 0, w1.len - w1.pos - 1)
    IN  IF r.rc # 0 THEN r.w
        ELSE IF l.cut THEN l.w
        ELSE SetTT(jw_strz(l.w, <<CH.dq>>), "JSTR")

\* A container begin that pushes without the test of the stack index.
BeginContainerNoLimit(w, name, open, ctx, tt) ==
    LET r == jw_prepv(w, name)
        w1 == jw_strz(r.w, <<open>>)
    IN  IF r.rc # 0 THEN r.w
        ELSE IF w1.sidx >= w1.ssize - 1 THEN [w1 EXCEPT !.sidx = w1.sidx + 1]
        ELSE [w1 EXCEPT !.sidx = w1.sidx + 1,
                        !.stack[w1.sidx + 2] = [ctx |-> ctx, tt |-> tt]]

\* Begin writing of array or object value to json writer.
BeginContainer(w, name, open, ctx, tt) ==
    LET r == jw_prepv(w, name)
        w1 == jw_strz(r.w, <<open>>)
    IN  IF r.rc # 0 THEN r.w
        ELSE IF w1.sidx >= w1.ssize - 1 THEN [w1 EXCEPT !.err = 1]
        ELSE [w1 EXCEPT !.sidx = w1.sidx + 1,
                        !.stack[w1.sidx + 2] = [ctx |-> ctx, tt |-> tt]]

jw_abegin(w, name) == BeginContainer(w, name, CH.lbrack, "CTXARR", "JASTART")

jw_obegin(w, name) == BeginContainer(w, name, CH.lbrace, "CTXOBJ", "JOSTART")

\* End writing of array or object value to json writer.
EndContainer(w, close, tt) ==
    LET w1 == jw_strz(w, <<close>>)
    IN  IF w.err # 0 THEN w
        ELSE IF w1.sidx = 0 THEN [w1 EXCEPT !.err = 1]
        ELSE [w1 EXCEPT !.sidx = w1.sidx - 1, !.stack[w1.sidx].tt = tt]

jw_aend(w) == EndContainer(w, CH.rbrack, "JAEND")

jw_oend(w) == EndContainer(w, CH.rbrace, "JOEND")

(***************************************************************************)
(* The caller: its calls to the parser, the accessors and the writer.       *)
(***************************************************************************)

\* The stack depths handed to jp_create (0 asks for the default).
StackArgs == {0, JSON_STACK_MIN + 1}

Init ==
    /\ jw = jw_create(0, 0)
    /\ jp \in {jp_create(st) : st \in StackArgs}
    /\ nodes = <<none>>
    /\ root = 0
    /\ json = <<>>
    /\ jsize = 0
    /\ pc = "idle"
    /\ calls = <<>>
    /\ ret = 0
    /\ res = [op |-> "none", node |-> 0, i |-> 0, name |-> <<>>, n |-> 0]
    /\ ub = {}

\* jp_parse(jp, &node, json, jsize) up to its loop: the arena is reset and
\* the root refers to `none'.
Entered(mem, len) ==
    /\ jp' = ParseEntry(jp, mem, len)
    /\ nodes' = <<none>>
    /\ root' = 1
    /\ pc' = "parsing"

\* jp_parse on an input in.doc followed in memory by the bytes in.tail.
JpParse(inputs) ==
    /\ pc = "idle"
    /\ \E in \in inputs :
        /\ json' = in.doc \o in.tail
        /\ jsize' = Len(in.doc)
        /\ Entered(in.doc \o in.tail, Len(in.doc))
    /\ UNCHANGED <<jw, calls, ret, res, ub>>

\* A further jp_parse on the same parser, the earlier one having returned.
JpParseAgain(inputs) ==
    /\ pc = "done"
    /\ \E in \in inputs :
        /\ json' = in.doc \o in.tail
        /\ jsize' = Len(in.doc)
        /\ Entered(in.doc \o in.tail, Len(in.doc))
    /\ UNCHANGED <<jw, calls, ret, res, ub>>

\* jp_parse on the string that jw_get returned with 0.
JpParseJson ==
    /\ pc = "idle"
    /\ calls # <<>> /\ calls[Len(calls)].op = "jw_get" /\ ret = 0
    /\ Entered(json, jsize)
    /\ UNCHANGED <<jw, json, jsize, calls, ret, res, ub>>

\* The values an int may take after an overflowing atoi.
AnyInt == {0, -1, 2147483647}

\* The caller's state after an iteration of the loop of jp_parse gave r.
Iterated(r) ==
    /\ jp' = r.p
    /\ nodes' = r.nodes
    /\ root' = r.root
    /\ ub' = ub \cup r.ub
    /\ pc' = IF r.ret = 1 THEN "parsing" ELSE "done"
    /\ ret' = IF r.ret = 1 THEN ret ELSE r.ret

\* One iteration of the loop of jp_parse; the last one returns.
JpStep ==
    /\ pc = "parsing"
    /\ \E any \in AnyInt : Iterated(ParseStep(jp, nodes, root, any))
    /\ UNCHANGED <<jw, json, jsize, calls, res>>

\* The nodes the caller holds a pointer to.
Held == {root, res.n} \ {0}

\* jn_elt(n, i) on a node the caller holds, after a successful parse.
JnElt ==
    /\ pc = "done" /\ ret = 0
    /\ \E n \in Held : \E i \in -1..(nodes[n].count + 1) :
        res' = [op |-> "jn_elt", node |-> n, i |-> i, name |-> <<>>,
                n |-> jn_elt(nodes, n, i)]
    /\ UNCHANGED <<jw, jp, nodes, root, json, jsize, pc, calls, ret, ub>>

\* The attribute names the caller asks for.
AskedNames == {<<CH.a>>, <<CH.b>>, <<CH.z, CH.z>>}

\* The caller's state after jn_attr(n, name) gave r.  An undefined call
\* either traps (the process is gone: pc "trapped", no pointer returned) or
\* returns any pointer.
Asked(n, name, r) ==
    LET q == [op |-> "jn_attr", node |-> n, i |-> 0, name |-> name, n |-> r.n]
    IN  /\ ub' = ub \cup r.ub
        /\ IF r.ub = {} THEN res' = q /\ pc' = pc
           ELSE \E any \in 0..Len(nodes) :
                   /\ res' = [q EXCEPT !.n = any]
                   /\ pc' = IF any = 0 THEN "trapped" ELSE pc

\* jn_attr(n, name) on a node the caller holds, after a successful parse.
JnAttr ==
    /\ pc = "done" /\ ret = 0
    /\ \E n \in Held : \E name \in AskedNames :
        Asked(n, name, jn_attr(nodes, jp.ant, n, name))
    /\ UNCHANGED <<jw, jp, nodes, root, json, jsize, calls, ret>>

\* The longest sequence of writer calls.
MaxCalls == 4

Call(op, val, str) == [op |-> op, val |-> val, str |-> str]

\* A call with a name argument.
NamedCall(op, val, str, name) ==
    [op |-> op, val |-> val, str |-> str, name |-> name]

\* The calls are jw_begin followed by nothing but jw_abegin(jw, NULL).
OpeningRun(cs) ==
    /\ cs # <<>> /\ cs[1] = Call("jw_begin", 0, <<>>)
    /\ \A i \in 2..Len(cs) : cs[i] = NamedCall("jw_abegin", 0, <<>>, NullName)

\* The values that Test4 writes: val1, val2 and the bytes of val3,
\* "Test String '1234567'".
Test4Val1 == 223344

Test4Val2 == 867757

Test4Val3 ==
    <<84, 101, 115, 116, 32, 83, 116, 114, 105, 110, 103, 32, 39, 49, 50, 51,
      52, 53, 54, 55, 39>>

\* The calls of Test4.
Test4Calls ==
    <<Call("jw_begin", 0, <<>>),
      NamedCall("jw_abegin", 0, <<>>, NullName),
      NamedCall("jw_int", Test4Val1, <<>>, NullName),
      NamedCall("jw_int", Test4Val2, <<>>, NullName),
      NamedCall("jw_str", 0, Test4Val3, NullName),
      Call("jw_aend", 0, <<>>),
      Call("jw_get", 0, <<>>)>>

\* The calls of Test6 with two objects in the array, the values of Test4 and
\* the attribute name a for both attributes.
Test6Calls ==
    <<Call("jw_begin", 0, <<>>),
      NamedCall("jw_abegin", 0, <<>>, NullName),
      NamedCall("jw_obegin", 0, <<>>, NullName),
      NamedCall("jw_int", Test4Val1, <<>>, <<CH.a>>),
      NamedCall("jw_str", 0, Test4Val3, <<CH.a>>),
      Call("jw_oend", 0, <<>>),
      NamedCall("jw_obegin", 0, <<>>, NullName),
      NamedCall("jw_int", Test4Val2, <<>>, <<CH.a>>),
      NamedCall("jw_str", 0, Test4Val3, <<CH.a>>),
      Call("jw_oend", 0, <<>>),
      Call("jw_aend", 0, <<>>),
      Call("jw_get", 0, <<>>)>>

\* An array that holds an empty array, an empty object and a number.
NestedArrCalls ==
    <<Call("jw_begin", 0, <<>>),
      NamedCall("jw_abegin", 0, <<>>, NullName),
      NamedCall("jw_abegin", 0, <<>>, NullName),
      Call("jw_aend", 0, <<>>),
      NamedCall("jw_obegin", 0, <<>>, NullName),
      Call("jw_oend", 0, <<>>),
      NamedCall("jw_int", Test4Val1, <<>>, NullName),
      Call("jw_aend", 0, <<>>),
      Call("jw_get", 0, <<>>)>>

\* An object that holds an array of one number, a number and an empty
\* object.
NestedObjCalls ==
    <<Call("jw_begin", 0, <<>>),
      NamedCall("jw_obegin", 0, <<>>, NullName),
      NamedCall("jw_abegin", 0, <<>>, <<CH.a>>),
      NamedCall("jw_int", Test4Val1, <<>>, NullName),
      Call("jw_aend", 0, <<>>),
      NamedCall("jw_int", Test4Val2, <<>>, <<CH.a>>),
      NamedCall("jw_obegin", 0, <<>>, <<CH.a>>),
      Call("jw_oend", 0, <<>>),
      Call("jw_oend", 0, <<>>),
      Call("jw_get", 0, <<>>)>>

\* The call sequences that write a whole document, as the tests do.
TestCalls == {Test4Calls, Test6Calls, NestedArrCalls, NestedObjCalls}

\* The calls made so far are the beginning of one of the tests' sequences.
InTest(cs) ==
    \E t \in TestCalls : Len(cs) < Len(t) /\ SubSeq(t, 1, Len(cs)) = cs

\* The caller either makes up to MaxCalls calls, or opens as many arrays as
\* the writer's stack takes (JSON_STACK_MIN - 1) and goes on from there, or
\* is in the middle of one of the tests' sequences: the calls that count
\* against MaxCalls.
CallsMade ==
    IF Len(calls) >= JSON_STACK_MIN
       /\ OpeningRun(SubSeq(calls, 1, JSON_STACK_MIN))
    THEN Len(calls) - (JSON_STACK_MIN - 1)
    ELSE IF InTest(calls) THEN 0
    ELSE Len(calls)

\* jw_create leaves the writer's stack as malloc returned it: the caller
\* starts with jw_begin, as every test does.
Begun == calls # <<>>

\* jw_begin(jw)
JwBegin ==
    /\ pc = "idle" /\ CallsMade < MaxCalls
    /\ jw' = jw_begin(jw)
    /\ calls' = Append(calls, Call("jw_begin", 0, <<>>))
    /\ UNCHANGED <<jp, nodes, root, json, jsize, pc, ret, res, ub>>

\* jw_int(jw, v, NULL)
JwInt(vals) ==
    /\ pc = "idle" /\ Begun /\ Len(calls) < MaxCalls
    /\ \E v \in vals :
        /\ jw' = jw_int(jw, v, NullName)
        /\ calls' = Append(calls, Call("jw_int", v, <<>>))
    /\ UNCHANGED <<jp, nodes, root, json, jsize, pc, ret, res, ub>>

\* jw_str(jw, s, NULL)
JwStr(strs) ==
    /\ pc = "idle" /\ Begun /\ Len(calls) < MaxCalls
    /\ \E str \in strs :
        /\ jw' = jw_str(jw, str, NullName)
        /\ calls' = Append(calls, Call("jw_str", 0, str))
    /\ UNCHANGED <<jp, nodes, root, json, jsize, pc, ret, res, ub>>

\* The caller's state after ret = jw_get(jw, &json, &jsize) gave r.
Got(r) ==
    /\ jw' = r.w
    /\ ret' = r.rc
    /\ json' = IF r.set THEN r.w.start ELSE json
    /\ jsize' = IF r.set THEN r.w.pos ELSE jsize

\* ret = jw_get(jw, &json, &jsize)
JwGet ==
    /\ pc = "idle" /\ Begun /\ CallsMade < MaxCalls
    /\ Got(jw_get(jw))
    /\ calls' = Append(calls, Call("jw_get", 0, <<>>))
    /\ UNCHANGED <<jp, nodes, root, pc, res, ub>>

\* The caller's state after a writer call that returns nothing.
Called(w, call) ==
    /\ jw' = w
    /\ calls' = Append(calls, call)
    /\ UNCHANGED <<jp, nodes, root, json, jsize, pc, ret, res, ub>>

\* The caller may make a writer call.
MayCall == pc = "idle" /\ Begun /\ CallsMade < MaxCalls

\* jw_null(jw, name)
JwNull(names) ==
    /\ MayCall
    /\ \E name \in names :
        Called(jw_null(jw, name), NamedCall("jw_null", 0, <<>>, name))

\* jw_bool(jw, val, name)
JwBool(names) ==
    /\ MayCall
    /\ \E name \in names : \E val \in {TRUE} :
        Called(jw_bool(jw, val, name), NamedCall("jw_bool", 1, <<>>, name))

\* jw_int(jw, v, name)
JwIntNamed(vals, names) ==
    /\ MayCall
    /\ \E name \in names : \E v \in vals :
        Called(jw_int(jw, v, name), NamedCall("jw_int", v, <<>>, name))

\* jw_dbl(jw, v, name)
JwDbl(vals, names) ==
    /\ MayCall
    /\ \E name \in names : \E v \in vals :
        Called(jw_dbl(jw, v, name), NamedCall("jw_dbl", v, <<>>, name))

\* jw_dbl_prec(jw, v, prec, name)
JwDblPrec(vals, precs, names) ==
    /\ MayCall
    /\ \E name \in names : \E v \in vals : \E prec \in precs :
        Called(jw_dbl_prec(jw, v, prec, name),
               NamedCall("jw_dbl_prec", v, <<prec>>, name))

\* jw_str(jw, s, name)
JwStrNamed(strs, names) ==
    /\ MayCall
    /\ \E name \in names : \E str \in strs :
        Called(jw_str(jw, str, name), NamedCall("jw_str", 0, str, name))

\* jw_abegin(jw, name); also the next call of an opening run.
JwABegin(names) ==
    /\ pc = "idle" /\ Begun
    /\ \E name \in names :
        /\ \/ CallsMade < MaxCalls
           \/ /\ name = NullName /\ Len(calls) < JSON_STACK_MIN
              /\ OpeningRun(calls)
        /\ Called(jw_abegin(jw, name),
                  NamedCall("jw_abegin", 0, <<>>, name))

\* jw_obegin(jw, name)
JwOBegin(names) ==
    /\ MayCall
    /\ \E name \in names :
        Called(jw_obegin(jw, name), NamedCall("jw_obegin", 0, <<>>, name))

\* jw_aend(jw)
JwAEnd ==
    /\ MayCall
    /\ Called(jw_aend(jw), Call("jw_aend", 0, <<>>))

\* jw_oend(jw)
JwOEnd ==
    /\ MayCall
    /\ Called(jw_oend(jw), Call("jw_oend", 0, <<>>))

(***************************************************************************)
(* Documents.                                                              *)
(***************************************************************************)

\* The concatenation of a sequence of byte strings.
RECURSIVE CatFrom(_, _)
CatFrom(ss, i) ==
    IF i > Len(ss) THEN <<>> ELSE ss[i] \o CatFrom(ss, i + 1)

Cat(ss) == CatFrom(ss, 1)

\* n copies of a byte string, one after the other.
Rep(n, bytes) == Cat(Fill(n, bytes))

\* The bytes of a run of decimal digits.
Digits(ds) == [i \in 1..Len(ds) |-> 48 + ds[i]]

\* A document followed in memory by a NUL, as C strings are.
Terminated(docs) == {[doc |-> d, tail |-> <<CH.nul>>] : d \in docs}

\* The document the caller handed to jp_parse.
Doc == SubSeq(json, 1, jsize)

\* The longest token sequence of the small documents.
MaxToks == 4

\* The tokens the small documents are made of.
Toks ==
    {<<CH.lbrack>>, <<CH.rbrack>>, <<CH.lbrace>>, <<CH.rbrace>>,
     <<CH.comma>>, <<CH.d1>>, <<CH.a, CH.colon>>, <<CH.sp>>}

\* Every document of at most MaxToks tokens.
SmallDocs ==
    UNION {{Cat(f) : f \in [1..k -> Toks]} : k \in 0..MaxToks}

Next == JpParse(Terminated(SmallDocs)) \/ JpStep \/ JnElt \/ JnAttr

Spec == Init /\ [][Next]_vars

\* Claim C3: whenever jp_parse returns nonzero, the caller's root pointer
\* refers to the Absent sentinel (type JT_NONE), so that no partial tree is
\* reachable from it.
C3_RootAbsentOnFailure ==
    (pc = "done" /\ ret # 0) => (root = 1 /\ nodes[root].type = "JT_NONE")

\* A failed parse that had wired nothing: the case where C3's statement holds.
C3_FailedUnwired == pc = "done" /\ ret # 0 /\ root = 1 /\ Doc = <<CH.rbrack>>

(***************************************************************************)
(* Integer literals.                                                       *)
(***************************************************************************)

\* The literals at the border of int: text, whether the mathematical value
\* is in the range of int, and the value when it is.
Lit(text, in32, val) == [text |-> text, in32 |-> in32, val |-> val]

INT_MAX == 2147483647

INT_MIN == -2147483647 - 1

NumLits ==
    {Lit(FormatInt(v), TRUE, v) :
        v \in {0, 7, -1, 123, 999999999, 1000000000, 1000000008, 1999999999,
               2000000000, INT_MAX, -100000000, -999999999, -2147483647,
               INT_MIN}}
    \cup {Lit(Digits(<<2, 1, 4, 7, 4, 8, 3, 6, 4, 8>>), FALSE, 0),
          Lit(<<CH.minus>> \o Digits(<<2, 1, 4, 7, 4, 8, 3, 6, 4, 9>>),
              FALSE, 0),
          Lit(Digits(<<3, 0, 0, 0, 0, 0, 0, 0, 0, 0>>), FALSE, 0),
          Lit(Digits(<<9, 9, 9, 9, 9, 9, 9, 9, 9, 9>>), FALSE, 0),
          Lit(Digits(<<1, 0, 0, 0, 0, 0, 0, 0, 0, 0, 0>>), FALSE, 0),
          Lit(<<CH.minus>> \o Digits(<<9, 0, 0, 0, 0, 0, 0, 0, 0, 0>>),
              FALSE, 0)}

\* What lies in memory behind a document of jsize bytes: the NUL of a C
\* string, or more bytes of a buffer that the document is a part of.
NumTails == {<<CH.nul>>, <<CH.sp, CH.nul>>, <<CH.d9, CH.nul>>,
             Digits(<<4, 5, 6>>) \o <<CH.nul>>}

NumInputs == {[doc |-> l.text, tail |-> t] : l \in NumLits, t \in NumTails}

NextNum == JpParse(NumInputs) \/ JpStep

SpecNum == Init /\ [][NextNum]_vars

\* The literal that the document is, when it is one of NumLits.
TheLit == CHOOSE l \in NumLits : l.text = Doc

\* The document is the literal of the int v, and jp_parse returned.
ParsedLit(text) == pc = "done" /\ Doc = text

\* Claim C6: the input 2147483647 parses as an Int node, 2147483648 as a
\* Double node, -2147483648 as an Int node and -2147483649 as a Double node.
C6_IntDoubleBoundary ==
    /\ ParsedLit(FormatInt(INT_MAX))
        => (ret = 0 /\ nodes[root].type = "JT_INT")
    /\ ParsedLit(Digits(<<2, 1, 4, 7, 4, 8, 3, 6, 4, 8>>))
        => (ret = 0 /\ nodes[root].type = "JT_DBL")
    /\ ParsedLit(FormatInt(INT_MIN))
        => (ret = 0 /\ nodes[root].type = "JT_INT")
    /\ ParsedLit(<<CH.minus>> \o Digits(<<2, 1, 4, 7, 4, 8, 3, 6, 4, 9>>))
        => (ret = 0 /\ nodes[root].type = "JT_DBL")

\* The three boundary inputs that parse as the claim C6 says, seen one at a
\* time: here the largest int.
C6_MaxIsInt ==
    /\ ParsedLit(FormatInt(INT_MAX)) /\ ret = 0
    /\ nodes[root].type = "JT_INT" /\ nodes[root].int_val = INT_MAX

\* Claim C7: no integer literal whose mathematical value lies outside the
\* range of int yields an Int node, and the value stored in an Int node
\* equals the value of its literal, without overflow.
C7_IntNodeExact ==
    (pc = "done" /\ \E l \in NumLits : l.text = Doc) =>
        /\ "atoi_overflow" \notin ub
        /\ \A n \in 2..Len(nodes) :
              nodes[n].type = "JT_INT" =>
                  (TheLit.in32 /\ nodes[n].int_val = TheLit.val)

\* An out-of-range literal that ends at a byte which is no digit is promoted
\* to Double: the part of C7 that the tokenizer does.
C7_Promoted ==
    /\ ParsedLit(Digits(<<3, 0, 0, 0, 0, 0, 0, 0, 0, 0>>)) /\ ret = 0
    /\ json[jsize + 1] = CH.nul
    /\ nodes[root].type = "JT_DBL"

(***************************************************************************)
(* Arrays.                                                                 *)
(***************************************************************************)

\* The element counts of the array documents: around the initial capacity
\* JSON_CAP_MIN and its first doubling.
ArrLens == {0, 1, 2, 7, 8, 9, 15, 16, 17}

\* The i-th value (from 0) of an array document: a one-digit int.
ArrValue(i) == i % 10

\* [0,1,2,...]: the array literal with k values.
ArrDoc(k) ==
    <<CH.lbrack>>
    \o Cat([i \in 1..k |-> (IF i > 1 THEN <<CH.comma>> ELSE <<>>)
                            \o Digits(<<ArrValue(i - 1)>>)])
    \o <<CH.rbrack>>

ArrDocs == {ArrDoc(k) : k \in ArrLens} \cup {<<CH.d1>>, <<CH.lbrace, CH.rbrace>>}

NextArr == JpParse(Terminated(ArrDocs)) \/ JpStep \/ JnElt

SpecArr == Init /\ [][NextArr]_vars

\* What jn_elt(node, i) has to return for a parsed ArrDoc(k): the node built
\* for the i-th value (the nodes are built in source order, the array node
\* first), Absent (node 1) otherwise.
ArrExpected(node, i, k) ==
    IF nodes[node].type = "JT_ARR" /\ 0 <= i /\ i < k THEN node + 1 + i ELSE 1

Attr(name, value) == name \o <<CH.colon>> \o value

\* {attr,attr,...}
Obj(attrs) ==
    <<CH.lbrace>>
    \o Cat([i \in 1..Len(attrs) |->
               (IF i > 1 THEN <<CH.comma>> ELSE <<>>) \o attrs[i]])
    \o <<CH.rbrace>>

\* [value,value,...]
Arr(values) ==
    <<CH.lbrack>>
    \o Cat([i \in 1..Len(values) |->
               (IF i > 1 THEN <<CH.comma>> ELSE <<>>) \o values[i]])
    \o <<CH.rbrack>>

Quoted(bytes) == <<CH.dq>> \o bytes \o <<CH.dq>>

\* The object with the nine attributes c, d, ..., j, zz: one more than the
\* initial capacity of the slots and of the name table.
NineAttrs ==
    Obj([i \in 1..9 |->
            Attr(IF i < 9 THEN <<98 + i>> ELSE <<CH.z, CH.z>>,
                 Digits(<<i>>))])

ObjDocs ==
    {Obj(<<>>),
     Obj(<<Attr(<<CH.a>>, <<CH.d1>>)>>),
     Obj(<<Attr(<<CH.a>>, <<CH.d1>>), Attr(<<CH.b>>, <<CH.d2>>)>>),
     Obj(<<Attr(Quoted(<<CH.a>>), <<CH.d1>>)>>),
     Obj(<<Attr(<<CH.a>>, Obj(<<>>))>>),
     Obj(<<Attr(<<CH.a>>, Obj(<<Attr(<<CH.b>>, <<CH.d1>>)>>))>>),
     Obj(<<Attr(<<CH.z, CH.z>>, <<CH.d1>>),
           Attr(<<CH.a>>, Arr(<<(<<CH.d2>>)>>))>>),
     Arr(<<Obj(<<Attr(<<CH.a>>, <<CH.d1>>)>>), Obj(<<>>)>>),
     Arr(<<Obj(<<Attr(<<CH.a>>, <<CH.d1>>)>>),
           Obj(<<Attr(<<CH.b>>, <<CH.d2>>)>>)>>),
     NineAttrs,
     Arr(<<>>),
     <<CH.d1>>}

NextObj == JpParse(Terminated(ObjDocs)) \/ JpStep \/ JnElt \/ JnAttr

SpecObj == Init /\ [][NextObj]_vars

\* The attribute slots of an object node that carry the given name.
SlotsNamed(node, name) ==
    {i \in 1..nodes[node].count :
        /\ nodes[node].names[i] # 0
        /\ jp.ant.names[nodes[node].names[i]] = name}

\* What jn_attr(node, name) has to return: the value of the attribute with
\* that name if the node is an object that has one, Absent (node 1) otherwise.
AttrExpected(node, name) ==
    IF nodes[node].type = "JT_OBJ" /\ SlotsNamed(node, name) # {}
    THEN nodes[node].values[CHOOSE i \in SlotsNamed(node, name) : TRUE]
    ELSE 1

\* Claim C4: jn_attr is total: it returns without fault for every node and
\* name; for a successfully parsed object (the empty object included) it
\* returns the value of the attribute with that name if the object has one
\* and Absent otherwise, also when the name was interned by another object
\* of the same parse; for a node that is no object it returns Absent.
C4_AttrTotal ==
    /\ pc # "trapped"
    /\ ub \cap {"div0", "union_misread"} = {}
    /\ res.op = "jn_attr" => res.n = AttrExpected(res.node, res.name)

\* The caller got the value of an attribute that the object has.
C4_AttrFound ==
    /\ pc = "done" /\ ret = 0 /\ res.op = "jn_attr" /\ res.name = <<CH.b>>
    /\ nodes[res.node].type = "JT_OBJ" /\ nodes[res.node].count = 2
    /\ nodes[res.n].type = "JT_INT" /\ nodes[res.n].int_val = 2

(***************************************************************************)
(* Attribute names at the length limit.                                    *)
(***************************************************************************)

\* The lengths of the attribute names: around the limit of 63 bytes.
NameLens == {1, 2, 62, 63, 64, 65, 70}

\* A name of n bytes: letters first, then digits.
LongName(n) == [i \in 1..n |-> IF i <= 40 THEN CH.x ELSE CH.d1]

\* An object with one attribute whose name has n bytes, quoted or not,
\* alone or after a short attribute.
NameDoc(n, quoted, second) ==
    LET attr == Attr(IF quoted THEN Quoted(LongName(n)) ELSE LongName(n),
                     <<CH.d2>>)
    IN  Obj(IF second THEN <<Attr(<<CH.a>>, <<CH.d1>>), attr>> ELSE <<attr>>)

NameDocs ==
    {NameDoc(n, q, sec) : n \in NameLens, q \in BOOLEAN, sec \in BOOLEAN}

NextName == JpParse(Terminated(NameDocs)) \/ JpStep

SpecName == Init /\ [][NextName]_vars

\* Claim C9: an object whose attribute name is 63 bytes long (or shorter)
\* parses, and jn_attr finds the attribute; an attribute name of 64 bytes or
\* more makes jp_parse return nonzero.
C9_NameLimit ==
    \A n \in NameLens : \A q \in BOOLEAN : \A sec \in BOOLEAN :
        (pc = "done" /\ Doc = NameDoc(n, q, sec)) =>
            IF n <= 63
            THEN /\ ret = 0
                 /\ nodes[root].type = "JT_OBJ"
                 /\ nodes[root].count = (IF sec THEN 2 ELSE 1)
                 /\ LET r == jn_attr(nodes, jp.ant, root, LongName(n))
                    IN  /\ r.ub = {}
                        /\ nodes[r.n].type = "JT_INT"
                        /\ nodes[r.n].int_val = 2
            ELSE ret # 0

\* The object with the name of 63 bytes was parsed.
C9_Name63Parsed ==
    /\ pc = "done" /\ ret = 0 /\ Doc = NameDoc(63, TRUE, FALSE)
    /\ Len(jp.ant.names[1]) = 63

(***************************************************************************)
(* Nesting.                                                                *)
(***************************************************************************)

\* The nesting depths of the documents: around the stack sizes of StackArgs.
Depths == {1, 2, 15, 16, 17, 18}

\* k arrays, or k objects (the attribute a holding the next), one in the
\* other, the innermost holding 1.
Nest(k, obj) ==
    Rep(k, IF obj THEN <<CH.lbrace, CH.a, CH.colon>> ELSE <<CH.lbrack>>)
    \o <<CH.d1>>
    \o Rep(k, IF obj THEN <<CH.rbrace>> ELSE <<CH.rbrack>>)

DeepDocs == {Nest(k, o) : k \in Depths, o \in BOOLEAN}

NextDeep == JpParse(Terminated(DeepDocs)) \/ JpStep

SpecDeep == Init /\ [][NextDeep]_vars

\* Claim C8: with a parser stack of S elements, an input with fewer than S
\* containers open at a time parses, and an input nested S deep or deeper
\* makes jp_parse return nonzero, no stack element at index >= S being read
\* or written.
C8_DepthBound ==
    /\ "stack_overflow" \notin ub
    /\ pc = "parsing" => jp.sidx < jp.ssize
    /\ \A k \in Depths : \A o \in BOOLEAN :
          (pc = "done" /\ Doc = Nest(k, o)) =>
              IF k < jp.ssize
              THEN ret = 0 /\ Len(nodes) = k + 2 /\ jp.sidx = 0
              ELSE ret # 0 /\ jp.sidx = jp.ssize

\* The input nested as deep as the stack has elements was refused at the
\* container that found the stack full.
C8_RefusedAtStackSize ==
    /\ pc = "done" /\ ret # 0 /\ jp.ssize = JSON_STACK_MIN
    /\ Doc = Nest(JSON_STACK_MIN, FALSE)
    /\ jp.sidx = jp.ssize /\ Len(nodes) = JSON_STACK_MIN + 1

(***************************************************************************)
(* Documents of RFC 8259.                                                  *)
(***************************************************************************)

\* Strings of RFC 8259, quotes included: unescaped bytes other than the
\* quote, the backslash and the control bytes, and two-byte escapes.
RfcStrings ==
    {Quoted(<<>>), Quoted(<<CH.a>>), Quoted(<<CH.a, CH.sp, CH.b>>),
     Quoted(<<CH.d1>>), Quoted(<<CH.hi, 159>>),
     Quoted(<<CH.bslash, CH.n>>), Quoted(<<CH.bslash, CH.dq, CH.a>>),
     Quoted(<<CH.bslash, CH.bslash>>),
     Quoted(<<CH.a, CH.bslash, CH.bslash>>)}

\* Values of RFC 8259 that are no containers.
RfcScalars ==
    RfcStrings
    \cup {<<CH.n, CH.u, CH.l, CH.l>>, <<CH.t, CH.r, CH.u, CH.e>>,
          <<CH.f, CH.a, CH.l, CH.s, CH.e>>, <<CH.d0>>, <<CH.minus, CH.d1>>,
          <<CH.d1, CH.dot, CH.d2>>, <<CH.d1, CH.e, CH.d2>>,
          <<CH.minus, CH.d0, CH.dot, CH.d1, CH.E, CH.plus, CH.d2>>}

\* Documents of RFC 8259: a value alone, in an array, as the value of a
\* member; members named by each of the strings; empty and nested
\* containers; blanks around the structural bytes.
RfcDocs ==
    RfcScalars
    \cup {Arr(<<v>>) : v \in RfcScalars}
    \cup {Obj(<<Attr(Quoted(<<CH.a>>), v)>>) : v \in RfcScalars}
    \cup {Obj(<<Attr(name, <<CH.d1>>)>>) : name \in RfcStrings}
    \cup {Arr(<<>>), Obj(<<>>), Arr(<<Arr(<<>>), Obj(<<>>)>>),
          Arr(<<(<<CH.d1>>), <<CH.d2>>>>),
          Obj(<<Attr(Quoted(<<CH.a>>), Arr(<<>>)),
                Attr(Quoted(<<CH.b>>), Obj(<<>>))>>),
          <<CH.sp, CH.lbrack, CH.lf, CH.d1, CH.tab, CH.comma, CH.cr, CH.d2,
            CH.sp, CH.rbrack, CH.sp>>}

NextRfc == JpParse(Terminated(RfcDocs)) \/ JpStep

SpecRfc == Init /\ [][NextRfc]_vars

\* Claim C10: every document that is valid under RFC 8259 is accepted by
\* jp_parse, whatever bytes its quoted attribute names and its strings hold.
C10_AcceptsRfc8259 == pc = "done" => ret = 0

\* A document of RFC 8259 that is accepted: a member named by an identifier
\* whose value is a string with an escape.
C10_AcceptedMember ==
    /\ pc = "done" /\ ret = 0
    /\ Doc = Obj(<<Attr(Quoted(<<CH.a>>), Quoted(<<CH.bslash, CH.n>>))>>)
    /\ nodes[root].type = "JT_OBJ" /\ nodes[root].count = 1
    /\ nodes[nodes[root].values[1]].str_val = <<CH.lf>>

(***************************************************************************)
(* Round trips: a value written, then parsed.                              *)
(***************************************************************************)

\* The ints the caller writes.
WrittenInts ==
    {0, 1, -1, 55, 999999999, 1000000000, 1000000008, 1999999999, INT_MAX,
     -100000000, -999999999, INT_MIN}

\* The NUL-free strings the caller writes.
WrittenStrs ==
    {<<>>, <<CH.a>>, <<CH.a, CH.sp, CH.hi, 159>>, <<CH.dq>>, <<CH.sq>>,
     <<CH.slash, CH.lf, CH.tab>>, <<CH.bslash, CH.n>>, <<CH.bslash, CH.dq>>,
     <<CH.bslash>>, <<CH.a, CH.bslash>>, <<CH.a, CH.b, CH.e, CH.f, CH.l, CH.n,
     CH.r, CH.s, CH.t>>}

NextRT ==
    \/ JwBegin
    \/ JwInt(WrittenInts)
    \/ JwStr(WrittenStrs)
    \/ JwGet
    \/ JpParseJson
    \/ JpStep

SpecRT == Init /\ [][NextRT]_vars

\* The caller made the calls jw_begin, then `value', then jw_get.
Wrote(value) ==
    calls = <<Call("jw_begin", 0, <<>>), value, Call("jw_get", 0, <<>>)>>

\* Claim C1: for every int v the calls jw_begin, jw_int(v, NULL), jw_get
\* return 0, and jp_parse of the document succeeds with a root node of type
\* Int whose value is v.
C1_IntRoundTrip ==
    \A v \in WrittenInts :
        Wrote(Call("jw_int", v, <<>>)) =>
            /\ pc = "idle" => ret = 0
            /\ pc = "done" =>
                  /\ ret = 0
                  /\ nodes[root].type = "JT_INT"
                  /\ nodes[root].int_val = v

\* The round trip of INT_MAX, an int that comes back as it was written.
C1_MaxRoundTrip ==
    /\ Wrote(Call("jw_int", INT_MAX, <<>>)) /\ pc = "done" /\ ret = 0
    /\ Doc = Digits(<<2, 1, 4, 7, 4, 8, 3, 6, 4, 7>>)
    /\ nodes[root].type = "JT_INT" /\ nodes[root].int_val = INT_MAX

\* Claim C2: for every NUL-free string s whose escaped form fits the buffer
\* the calls jw_begin, jw_str(s, NULL), jw_get return 0, and jp_parse of the
\* document succeeds with a root node of type String whose bytes are s and
\* whose length is the length of s.
C2_StrRoundTrip ==
    \A str \in WrittenStrs :
        Wrote(Call("jw_str", 0, str)) =>
            /\ pc = "idle" => ret = 0
            /\ pc = "done" =>
                  /\ ret = 0
                  /\ nodes[root].type = "JT_STR"
                  /\ nodes[root].str_val = str
                  /\ nodes[root].str_len = Len(str)

\* The round trip of a string with a backslash and a quote in it, which
\* comes back as it was written.
C2_EscapedRoundTrip ==
    /\ Wrote(Call("jw_str", 0, <<CH.bslash, CH.dq>>)) /\ pc = "done"
    /\ ret = 0 /\ Doc = Quoted(<<CH.bslash, CH.bslash, CH.bslash, CH.dq>>)
    /\ nodes[root].type = "JT_STR" /\ nodes[root].str_val = <<CH.bslash, CH.dq>>

(***************************************************************************)
(* Unquoted attribute names and the keywords.                              *)
(***************************************************************************)

\* Identifiers that are no keyword: a letter or an underscore first, then
\* letters, digits and underscores.  The last five begin with the letters
\* of a keyword: nullx, NULL1, trues, Truely, falsey.
Idents ==
    {<<CH.a>>, <<CH.us>>, <<CH.us, CH.a, CH.d1>>, <<65, CH.us, CH.b>>,
     <<CH.z, CH.z, CH.d9>>, <<CH.n>>, <<CH.n, CH.u, CH.l>>,
     <<CH.t, CH.r, CH.u>>, <<CH.f, CH.a, CH.l, CH.s>>,
     <<CH.x, CH.n, CH.u, CH.l, CH.l>>,
     <<CH.n, CH.u, CH.l, CH.l, CH.x>>, <<78, 85, 76, 76, CH.d1>>,
     <<CH.t, CH.r, CH.u, CH.e, CH.s>>, <<84, CH.r, CH.u, CH.e, CH.l, 121>>,
     <<CH.f, CH.a, CH.l, CH.s, CH.e, 121>>}

\* The objects with one attribute named id, the colon right after the name
\* or after blanks, and the objects where it is the second attribute.
IdentObjs(id) ==
    {Obj(<<Attr(id, <<CH.d1>>)>>),
     Obj(<<Attr(id \o <<CH.sp, CH.tab>>, <<CH.d1>>)>>),
     Obj(<<Attr(<<CH.b>>, <<CH.d2>>), Attr(id, <<CH.d1>>)>>)}

\* The keywords as values, in both cases of the letters.
KeywordDocs ==
    {<<CH.n, CH.u, CH.l, CH.l>>, <<78, 85, 76, 76>>,
     Arr(<<(<<CH.t, CH.r, CH.u, CH.e>>), <<CH.f, CH.a, CH.l, CH.s, CH.e>>>>),
     Obj(<<Attr(<<CH.a>>, <<CH.n, CH.u, CH.l, CH.l>>)>>),
     Arr(<<(<<CH.n, CH.u, CH.l, CH.l, CH.sp>>)>>)}

IdentDocs == (UNION {IdentObjs(id) : id \in Idents}) \cup KeywordDocs

NextIdent == JpParse(Terminated(IdentDocs)) \/ JpStep

SpecIdent == Init /\ [][NextIdent]_vars

\* The byte behind the current token, a NUL at the end of the input.
ByteBehindToken ==
    IF jp.tokc.pos + jp.tokc.len < jp.len
    THEN ByteAt(jp.start, jp.tokc.pos + jp.tokc.len) ELSE CH.nul

\* Claim C11: inside an object every identifier (a letter or an underscore,
\* then letters, digits, underscores; shorter than 64 bytes) followed by
\* optional blanks and a colon is accepted as an attribute name; and the
\* tokenizer gives a null, true or false token only when the byte behind
\* the letters of the keyword is no letter and no digit, a longer run being
\* an unquoted name.
C11_UnquotedNames ==
    /\ \A id \in Idents :
          (pc = "done" /\ Doc \in IdentObjs(id)) =>
              /\ ret = 0
              /\ nodes[root].type = "JT_OBJ"
              /\ SlotsNamed(root, id) # {}
    /\ (pc \in {"parsing", "done"} /\ jp.tokc.type \in {"JNULL", "JBOOL"}) =>
          ct(ByteBehindToken) \notin {"CLT", "CNM"}

\* An unquoted name that shares its first letters with a keyword without
\* holding the keyword is accepted: {nul:1}.
C11_NulAccepted ==
    /\ pc = "done" /\ ret = 0
    /\ Doc = Obj(<<Attr(<<CH.n, CH.u, CH.l>>, <<CH.d1>>)>>)
    /\ SlotsNamed(root, <<CH.n, CH.u, CH.l>>) # {}
    /\ nodes[nodes[root].values[1]].int_val = 1

(***************************************************************************)
(* Comments.                                                               *)
(***************************************************************************)

\* The document of Test8, line by line.
Test8Json ==
    Cat(<<
         \* {\n
         <<123, 10>>,
         \*   // single-line comment\n
         <<32, 32, 47, 47, 32, 115, 105, 110, 103, 108, 101, 45,
           108, 105, 110, 101, 32, 99, 111, 109, 109, 101, 110, 116,
           10>>,
         \*   attr1: 1,\n
         <<32, 32, 97, 116, 116, 114, 49, 58, 32, 49, 44, 10>>,
         \* \n
         <<10>>,
         \*   /*\n
         <<32, 32, 47, 42, 10>>,
         \*    * multi-line comment\n
         <<32, 32, 32, 42, 32, 109, 117, 108, 116, 105, 45, 108,
           105, 110, 101, 32, 99, 111, 109, 109, 101, 110, 116, 10>>,
         \*    */\n
         <<32, 32, 32, 42, 47, 10>>,
         \*   attr2: 2\n
         <<32, 32, 97, 116, 116, 114, 50, 58, 32, 50, 10>>,
         \* }
         <<125>>
    >>)

Attr1 == <<CH.a, CH.t, CH.t, CH.r, CH.d1>>

Attr2 == <<CH.a, CH.t, CH.t, CH.r, CH.d2>>

\* The tokens of {attr1:1,attr2:2}
Test8Toks ==
    <<(<<CH.lbrace>>), Attr1 \o <<CH.colon>>, <<CH.d1>>, <<CH.comma>>,
      Attr2 \o <<CH.colon>>, <<CH.d2>>, <<CH.rbrace>>>>

\* A single-line and a multi-line comment.
Comments ==
    {<<CH.slash, CH.slash, CH.sp, CH.x, CH.lf>>,
     <<CH.slash, 42, CH.sp, CH.x, CH.lf, 42, CH.slash>>}

\* The tokens of Test8 with the text c put in front of token k (behind the
\* last token for k = 8), a blank between the tokens.
Between(k, c) ==
    Cat([i \in 1..8 |->
            (IF i = k THEN c ELSE <<>>)
            \o (IF i <= 7 THEN Test8Toks[i] \o <<CH.sp>> ELSE <<>>)])

\* Test8's document and its tokens with one comment between them.
CommentDocs ==
    {Test8Json} \cup {Between(k, c) : k \in 1..8, c \in Comments}

\* Test8's tokens without a comment.
PlainDoc == Between(1, <<>>)

NextComment ==
    JpParse(Terminated(CommentDocs \cup {PlainDoc})) \/ JpStep

SpecComment == Init /\ [][NextComment]_vars

\* jn_attr(root, name) is an Int node with the value v.
AttrIsInt(name, v) ==
    LET r == jn_attr(nodes, jp.ant, root, name)
    IN  /\ r.ub = {}
        /\ nodes[r.n].type = "JT_INT"
        /\ nodes[r.n].int_val = v

\* Claim C12: comments are skipped: an object document with a `//' comment
\* and a `/* */' comment between its tokens (the document of Test8) parses
\* successfully to an object whose attributes are found by name, attr1
\* being the Int 1 and attr2 the Int 2.
C12_CommentsSkipped ==
    (pc = "done" /\ Doc \in CommentDocs) =>
        /\ ret = 0
        /\ nodes[root].type = "JT_OBJ"
        /\ AttrIsInt(Attr1, 1)
        /\ AttrIsInt(Attr2, 2)

\* The tokens of Test8 without the comments parse to that object.
C12_PlainParsed ==
    /\ pc = "done" /\ ret = 0 /\ Doc = PlainDoc
    /\ nodes[root].type = "JT_OBJ" /\ nodes[root].count = 2
    /\ AttrIsInt(Attr1, 1)
    /\ AttrIsInt(Attr2, 2)

(***************************************************************************)
(* Trailing commas.                                                        *)
(***************************************************************************)

\* The blanks between the comma and the closing bracket.
TrailBlanks == {<<>>, <<CH.sp>>, <<CH.lf, CH.tab>>}

\* Arrays and objects whose last value is followed by a comma, and the two
\* with nothing but the comma.
Trailing(bl) ==
    {<<CH.lbrack>> \o body \o <<CH.comma>> \o bl \o <<CH.rbrack>> :
        body \in {<<>>, <<CH.d1>>, <<CH.d1, CH.comma, CH.d2>>,
                  Quoted(<<CH.x>>), <<CH.n, CH.u, CH.l, CH.l>>,
                  Arr(<<>>), Obj(<<>>)}}
    \cup
    {<<CH.lbrace>> \o body \o <<CH.comma>> \o bl \o <<CH.rbrace>> :
        body \in {<<>>, Attr(<<CH.a>>, <<CH.d1>>),
                  Attr(<<CH.a>>, <<CH.d1>>) \o <<CH.comma>>
                      \o Attr(Quoted(<<CH.b>>), <<CH.d2>>),
                  Attr(<<CH.a>>, Arr(<<>>))}}

\* A value alone and inside arrays and objects.
Wrapped(v) ==
    {v, Arr(<<v>>), Arr(<<v, <<CH.d2>>>>), Arr(<<(<<CH.d0>>), v>>),
     Obj(<<Attr(<<CH.a>>, v)>>),
     Obj(<<Attr(<<CH.a>>, v), Attr(<<CH.b>>, <<CH.d2>>)>>)}

TrailDocs ==
    UNION {Wrapped(v) : v \in UNION {Trailing(bl) : bl \in TrailBlanks}}

NextTrail == JpParse(Terminated(TrailDocs)) \/ JpStep

SpecTrail == Init /\ [][NextTrail]_vars

\* Claim C13: trailing commas are rejected: jp_parse returns nonzero for
\* every document with an array or an object in which a comma is followed,
\* blanks aside, by the closing bracket.
C13_TrailingCommaRejected == (pc = "done" /\ Doc \in TrailDocs) => ret # 0

\* [1,2, ] is refused at the closing bracket that follows the comma.
C13_RefusedAtBracket ==
    /\ pc = "done" /\ ret = -1
    /\ Doc = <<CH.lbrack, CH.d1, CH.comma, CH.d2, CH.comma, CH.sp, CH.rbrack>>
    /\ jp.tokc.type = "JAEND"
    /\ Top(jp).tokp.type = "JCOMMA"
    /\ nodes[root].count = 2

(***************************************************************************)
(* The writer: names, errors and the stack.                                *)
(***************************************************************************)

\* The name arguments of the writer calls: NULL and "a".
WriterNames == {NullName, <<CH.a>>}

NextW ==
    \/ JwBegin
    \/ JwNull(WriterNames)
    \/ JwBool(WriterNames)
    \/ JwIntNamed({7}, WriterNames)
    \/ JwDbl({2}, WriterNames)
    \/ JwStrNamed({<<CH.b>>}, WriterNames)
    \/ JwABegin(WriterNames)
    \/ JwOBegin(WriterNames)
    \/ JwAEnd
    \/ JwOEnd
    \/ JwGet

SpecW == Init /\ [][NextW]_vars

ValueOps == {"jw_null", "jw_bool", "jw_int", "jw_dbl", "jw_str"}

OpenOps == {"jw_abegin", "jw_obegin"}

CloseOps == {"jw_aend", "jw_oend"}

\* The step is a writer call of one of the operations ops.
Made(ops) == calls' # calls /\ calls'[Len(calls')].op \in ops

\* The error flag is set: the state the claims C16, C17 and C18 start from.
Failed == Begun /\ jw.err # 0

\* Claim C16: once the writer's error flag is set it stays set across every
\* writer call other than jw_begin, and every jw_get made before the next
\* jw_begin returns nonzero.
C16_ErrorSticky ==
    [][(Failed /\ Made(ValueOps \cup OpenOps \cup CloseOps \cup {"jw_get"}))
          => (jw'.err # 0 /\ (Made({"jw_get"}) => ret' # 0))]_vars

\* A named value at top level set the flag; after one more value call
\* jw_get returned nonzero.
C16_GetAfterError ==
    /\ calls = <<Call("jw_begin", 0, <<>>),
                 NamedCall("jw_int", 7, <<>>, <<CH.a>>),
                 NamedCall("jw_null", 0, <<>>, NullName),
                 Call("jw_get", 0, <<>>)>>
    /\ jw.err # 0 /\ ret # 0

\* Claim C17: after the error flag is set every value call (null, bool,
\* int, double, string) and every container-begin call is a no-op: it
\* leaves the bytes of the output buffer and the write position as they
\* were, at top level, in an array and in an object.
C17_NoOpAfterError ==
    [][(Failed /\ Made(ValueOps \cup OpenOps))
          => (jw'.pos = jw.pos /\ jw'.start = jw.start)]_vars

\* A value call after the error that wrote nothing: in an array whose
\* first element is still to come.
C17_NothingWritten ==
    /\ calls = <<Call("jw_begin", 0, <<>>),
                 NamedCall("jw_abegin", 0, <<>>, NullName),
                 NamedCall("jw_int", 7, <<>>, <<CH.a>>),
                 NamedCall("jw_str", 0, <<CH.b>>, NullName)>>
    /\ jw.err # 0 /\ jw.pos = 1 /\ jw.start = <<CH.lbrack>>

\* Claim C18: after the error flag is set jw_aend and jw_oend still balance
\* the stack: each such call made while a container is open pops one stack
\* element of the writer.
C18_EndBalances ==
    [][(Failed /\ jw.sidx > 0 /\ Made(CloseOps)) => jw'.sidx = jw.sidx - 1]_vars

\* The name argument breaks the contract of the current context.
Misnamed(w, name) ==
    \/ w.stack[w.sidx + 1].ctx = "CTXOBJ" /\ name = NullName
    \/ w.stack[w.sidx + 1].ctx # "CTXOBJ" /\ name # NullName

\* Claim C19: a value call or a container-begin call with a NULL name in
\* an object, or with a name at top level or in an array, sets the error
\* flag and appends no byte to the output buffer.
C19_NameContract ==
    [][(Begun /\ Made(ValueOps \cup OpenOps)
        /\ Misnamed(jw, calls'[Len(calls')].name))
          => (jw'.err # 0 /\ jw'.pos = jw.pos /\ jw'.start = jw.start)]_vars

\* A value without a name in an object that has an attribute: the flag is
\* set and the buffer ends with the attribute.
C19_UnnamedInObject ==
    /\ calls = <<Call("jw_begin", 0, <<>>),
                 NamedCall("jw_obegin", 0, <<>>, NullName),
                 NamedCall("jw_int", 7, <<>>, <<CH.a>>),
                 NamedCall("jw_int", 7, <<>>, NullName)>>
    /\ jw.err # 0 /\ jw.pos = 6
    /\ SubSeq(jw.start, 1, 6) = <<CH.lbrace, CH.dq, CH.a, CH.dq, CH.colon, 55>>

\* Claim C20: jw_get returns nonzero whenever a container opened since the
\* last jw_begin is not closed, that is whenever the current stack element
\* is not the first one; it returns 0 only when the stack index is 0 and
\* the error flag is clear.
C20_GetNeedsTop ==
    [][(Begun /\ Made({"jw_get"}))
          => /\ jw.sidx # 0 => ret' # 0
             /\ ret' = 0 => (jw.sidx = 0 /\ jw.err = 0)]_vars

\* jw_get in an open object inside an open array returned nonzero.
C20_GetInOpenContainer ==
    /\ calls = <<Call("jw_begin", 0, <<>>),
                 NamedCall("jw_abegin", 0, <<>>, NullName),
                 NamedCall("jw_obegin", 0, <<>>, NullName),
                 Call("jw_get", 0, <<>>)>>
    /\ jw.sidx = 2 /\ jw.err = 0 /\ ret # 0

(***************************************************************************)
(* C14: the memory of a parse.                                             *)
(***************************************************************************)

\* The element counts of the arrays parsed for their memory: a small one,
\* one that grows once, and the counts around the last array that fits
\* into the first chunk of JSON_MEM_MIN bytes.
MemLens == {1, 9, 256, 257}

\* [1,1,...,1]: the array literal of n ones.
OnesDoc(n) ==
    [i \in 1..(2 * n + 1) |->
        IF i = 1 THEN CH.lbrack
        ELSE IF i = 2 * n + 1 THEN CH.rbrack
        ELSE IF i % 2 = 0 THEN CH.d1 ELSE CH.comma]

MemDocs == {OnesDoc(n) : n \in MemLens}

NextMem == JpParse(Terminated(MemDocs)) \/ JpStep

SpecMem == Init /\ [][NextMem]_vars

\* The arena as jp_create made it.
CreatedArena == marena_create(JSON_MEM_MIN)

\* Some request of the parse found no room in the first chunk.
DidNotFit == jp.mem.curr > 1

\* C14: during jp_parse the arena does not grow and nothing is taken from
\* the process heap: the arena has the number of chunks that jp_create
\* gave it, each of the size fixed then, and a parse of which a request
\* did not fit into that memory returns nonzero.
C14_ArenaFixed ==
    /\ Len(jp.mem.chunks) = Len(CreatedArena.chunks)
    /\ \A i \in 1..Len(jp.mem.chunks) :
            jp.mem.chunks[i].size = CreatedArena.chunks[1].size
    /\ (pc = "done" /\ DidNotFit) => ret # 0

\* A parse that fits: the 256 ones are parsed in the chunk of jp_create,
\* the array of the node having been reallocated on the way.
C14_FitsInArena ==
    /\ pc = "done" /\ ret = 0
    /\ Doc = OnesDoc(256)
    /\ nodes[root].count = 256
    /\ jp.mem.free # <<>>
    /\ jp.mem.chunks = <<[size |-> JSON_MEM_MIN, allocated |-> 13024]>>

(***************************************************************************)
(* C15: parses that follow one another on the same parser.                 *)
(***************************************************************************)

\* The documents parsed one after the other: a scalar, nested arrays, a
\* string attribute, nested objects, nine attributes (the name table and
\* the slots grow, blocks are freed), two that fail, one of them three
\* containers deep, and the array that makes the arena grow.
AgainDocs ==
    {<<CH.d1>>,
     Arr(<<(<<CH.d1>>), Arr(<<(<<CH.d2>>)>>)>>),
     Obj(<<Attr(<<CH.a>>, Quoted(<<CH.x>>))>>),
     Obj(<<Attr(<<CH.b>>, Obj(<<Attr(<<CH.a>>, <<CH.d1>>)>>))>>),
     NineAttrs,
     <<CH.lbrack, CH.lbrack, CH.lbrace>>,
     <<CH.lbrace, CH.a, CH.colon, CH.d1, CH.comma>>,
     OnesDoc(257)}

NextAgain ==
    \/ JpParse(Terminated(AgainDocs))
    \/ JpParseAgain(Terminated(AgainDocs))
    \/ JpStep

SpecAgain == Init /\ [][NextAgain]_vars

\* The tree below node n as a value without pointers: the type and the
\* value of a scalar, the elements of an array, the names (as strings) and
\* the values of an object; NULL for a value not yet there.
RECURSIVE Tree(_, _, _)
Tree(nd, ant, n) ==
    LET x == nd[n]
        sub == [i \in 1..x.count |-> Tree(nd, ant, Peek(x.values, i - 1))]
        name(i) == IF x.closed THEN x.names[i]
                   ELSE Peek(ant.an, Peek(x.anis, i - 1))
    IN  IF n = 0 THEN [type |-> "NULL"]
        ELSE IF x.type = "JT_ARR" THEN [type |-> x.type, elts |-> sub]
        ELSE IF x.type = "JT_OBJ" THEN
            [type |-> x.type, closed |-> x.closed, vals |-> sub,
             names |-> [i \in 1..x.count |-> ant.names[name(i)]]]
        ELSE [type |-> x.type, bool_val |-> x.bool_val,
              int_val |-> x.int_val, dbl_val |-> x.dbl_val,
              str_val |-> x.str_val, str_len |-> x.str_len]

\* jp_parse of the caller's document on a parser just created with the
\* stack size of the caller's parser.
Fresh == jp_parse(jp_create(jp.ssize), json, jsize, 0)

\* What jp_parse gave in r, seen from outside: the return code and the
\* tree at the root.
Outcome(r) == <<r.ret, Tree(r.nodes, r.p.ant, r.root)>>

Ctx(w) == w.stack[w.sidx + 1].ctx

\* The step is a jw_aend made outside an array or a jw_oend made outside an
\* object (with no container open the context is that of a value).
WrongEnd ==
    \/ Made({"jw_aend"}) /\ Ctx(jw) # "CTXARR"
    \/ Made({"jw_oend"}) /\ Ctx(jw) # "CTXOBJ"

\* Claim C21: the closing calls are checked against the context stack: a
\* jw_aend made while the current context is not that of an array, a jw_oend
\* made while it is not that of an object, and an end with no container
\* open each leave the error flag set, so that no output with a closing
\* bracket of the wrong type is handed out with 0.
C21_EndMatchesContext == [][WrongEnd => jw'.err # 0]_vars

\* An end with no container open: jw_aend right after jw_begin sets the flag.
C21_EndWithoutContainer ==
    /\ calls = <<Call("jw_begin", 0, <<>>), Call("jw_aend", 0, <<>>)>>
    /\ jw.err = 1 /\ jw.sidx = 0

(***************************************************************************)
(* C22: the writer at the end of its buffer.                               *)
(***************************************************************************)

\* The precisions of the doubles that fill the buffer of JSON_MEM_MIN bytes:
\* 1.000... written at top level takes 2 + prec bytes, behind `[' it ends
\* at 3 + prec.  The values are those around the last text that fits.
FillPrecs ==
    {JSON_MEM_MIN - k : k \in {2, 3, 4, 5, 6, 7, 9}}

NextFull ==
    \/ JwBegin
    \/ JwABegin({NullName})
    \/ JwDblPrec({1}, FillPrecs, {NullName})
    \/ JwIntNamed({7}, {NullName})
    \/ JwStrNamed({<<CH.b>>}, {NullName})
    \/ JwNull({NullName})
    \/ JwAEnd
    \/ JwGet

SpecFull == Init /\ [][NextFull]_vars

\* The first size bytes of the buffer are the bytes that were emitted: none
\* of them is the NUL that a cut conversion leaves (the caller's names and
\* values hold no NUL).
Unbroken(buf, size) == \A i \in 1..size : buf[i] # CH.nul

\* Claim C22: every overflow of the buffer sets the error flag.  As long as
\* the flag is clear the buffer holds every emitted byte in full, also when
\* a text is as long as the space that was left, so that a jw_get that
\* returns 0 hands out no cut value and no NUL before the size it reports.
C22_OverflowFlagged ==
    /\ (Begun /\ jw.err = 0) => Unbroken(jw.start, jw.pos)
    /\ (Begun /\ calls[Len(calls)].op = "jw_get" /\ ret = 0) =>
            Unbroken(json, jsize)

\* An overflow that is flagged: at top level 1.000... with the longest
\* precision of FillPrecs is one byte longer than the space left and sets
\* the flag.
C22_LongerIsFlagged ==
    /\ calls = <<Call("jw_begin", 0, <<>>),
                 NamedCall("jw_dbl_prec", 1, <<JSON_MEM_MIN - 2>>, NullName)>>
    /\ jw.err = 1 /\ jw.pos = jw.len - 1

(***************************************************************************)
(* Objects that repeat an attribute name.                                  *)
(***************************************************************************)

\* The object whose i-th attribute has the name ns[i] and the value i - 1.
DupObj(ns) == Obj([i \in 1..Len(ns) |-> Attr(ns[i], Digits(<<i - 1>>))])

\* The attribute names of the documents: every sequence of one to three
\* names out of a and b, and two sequences that outgrow the initial
\* capacity of the attribute slots.
DupNames ==
    UNION {[1..n -> {<<CH.a>>, <<CH.b>>}] : n \in 1..3}
        \cup {[i \in 1..9 |-> IF i % 2 = 1 THEN <<CH.a>> ELSE <<CH.b>>],
              [i \in 1..10 |-> IF i \in {1, 10} THEN <<CH.z, CH.z>>
                               ELSE <<CH.a>>]}

DupDocs == {DupObj(ns) : ns \in DupNames}

NextDup == JpParse(Terminated(DupDocs)) \/ JpStep \/ JnAttr

SpecDup == Init /\ [][NextDup]_vars

\* The attribute names of the document that was parsed.
DocNames == CHOOSE ns \in DupNames : DupObj(ns) = Doc

\* The last attribute of the document that has the given name, 0 if none.
LastNamed(ns, name) ==
    IF \E i \in 1..Len(ns) : ns[i] = name
    THEN CHOOSE i \in 1..Len(ns) :
            ns[i] = name /\ \A j \in (i + 1)..Len(ns) : ns[j] # name
    ELSE 0

SepNames == {NullName, <<CH.a>>}

NextSep ==
    \/ JwBegin
    \/ JwIntNamed({Test4Val1, Test4Val2}, SepNames)
    \/ JwStrNamed({Test4Val3}, SepNames)
    \/ JwABegin(SepNames)
    \/ JwOBegin(SepNames)
    \/ JwAEnd
    \/ JwOEnd
    \/ JwGet

SpecSep == Init /\ [][NextSep]_vars

\* The text of a document under construction: the bytes written since
\* jw_begin and, for each container that is open (the top level first), the
\* number of elements it has so far.
NoText == [out |-> <<>>, cnt |-> <<0>>]

\* The text after one more element: a comma if the container has an element
\* already, the quoted name and a colon for a named element, then the bytes
\* of the element.
WithElement(t, name, bytes) ==
    LET d == Len(t.cnt)
    IN  [out |-> t.out \o (IF t.cnt[d] > 0 THEN <<CH.comma>> ELSE <<>>)
                       \o (IF name = NullName THEN <<>>
                           ELSE Quoted(name) \o <<CH.colon>>)
                       \o bytes,
         cnt |-> [t.cnt EXCEPT ![d] = @ + 1]]

\* The text after a call of the caller.
AfterCall(t, c) ==
    IF c.op = "jw_begin" THEN NoText
    ELSE IF c.op = "jw_int" THEN WithElement(t, c.name, FormatInt(c.val))
    ELSE IF c.op = "jw_str" THEN WithElement(t, c.name, Quoted(c.str))
    ELSE IF c.op \in {"jw_abegin", "jw_obegin"} THEN
        LET e == WithElement(t, c.name,
                             IF c.op = "jw_abegin" THEN <<CH.lbrack>>
                             ELSE <<CH.lbrace>>)
        IN  [e EXCEPT !.cnt = Append(@, 0)]
    ELSE IF c.op \in {"jw_aend", "jw_oend"} THEN
        [out |-> t.out \o (IF c.op = "jw_aend" THEN <<CH.rbrack>>
                           ELSE <<CH.rbrace>>),
         cnt |-> SubSeq(t.cnt, 1, Len(t.cnt) - 1)]
    ELSE t

\* The text that a sequence of calls has to give.
RECURSIVE TextOf(_, _)
TextOf(cs, n) == IF n = 0 THEN NoText ELSE AfterCall(TextOf(cs, n - 1), cs[n])

\* The string that Test4 expects:
\* [223344,867757,"Test String '1234567'"]
Test4Json ==
    <<91, 50, 50, 51, 51, 52, 52, 44, 56, 54, 55, 55, 53, 55, 44, 34,
      84, 101, 115, 116, 32, 83, 116, 114, 105, 110, 103, 32, 39, 49,
      50, 51, 52, 53, 54, 55, 39, 34, 93>>

C25_TenCharPromotion ==
    (pc = "done" /\ Len(Doc) = 10 /\ \E l \in NumLits : l.text = Doc) =>
        /\ ret = 0
        /\ nodes[root].type = (IF TheLit.in32 THEN "JT_INT" ELSE "JT_DBL")

\* A token of 10 digits above the range of int was promoted.
C25_AboveMaxPromoted ==
    /\ ParsedLit(Digits(<<9, 9, 9, 9, 9, 9, 9, 9, 9, 9>>)) /\ ret = 0
    /\ nodes[root].type = "JT_DBL"

(***************************************************************************)
(* The order of the tokens.                                                *)
(***************************************************************************)

\* The values of the documents: a number, null, an empty and a filled array,
\* an empty and a filled object.
WireValues ==
    {<<CH.d1>>, <<CH.n, CH.u, CH.l, CH.l>>, Arr(<<>>), Arr(<<(<<CH.d2>>)>>),
     Obj(<<>>), Obj(<<Attr(<<CH.b>>, <<CH.d2>>)>>)}

\* Two values with nothing but the bytes sep between them: alone, in an
\* array (as its first elements and behind one), and in an object (the
\* second with and without a name).
Adjacent(x, sep, y) ==
    {x \o sep \o y,
     <<CH.lbrack>> \o x \o sep \o y \o <<CH.rbrack>>,
     <<CH.lbrack, CH.d1, CH.comma>> \o x \o sep \o y \o <<CH.rbrack>>,
     <<CH.lbrace>> \o Attr(<<CH.a>>, x) \o sep \o y \o <<CH.rbrace>>,
     <<CH.lbrace>> \o Attr(<<CH.a>>, x) \o sep \o Attr(<<CH.b>>, y)
         \o <<CH.rbrace>>}

\* The documents with two values and no comma between them; the pairs that
\* need no blank to be two tokens are there without one as well.
NoCommaDocs ==
    UNION {Adjacent(x, <<CH.sp>>, y) : x, y \in WireValues}
        \cup UNION {Adjacent(x, <<>>, y) :
                       x \in {Arr(<<>>), Obj(<<>>)}, y \in WireValues}

\* The same pairs with the comma, in an array and in an object.
CommaDocs ==
    UNION {{Arr(<<x, y>>), Obj(<<Attr(<<CH.a>>, x), Attr(<<CH.b>>, y)>>)} :
              x, y \in WireValues}

\* Names where no name may be: at top level, in an array, behind a name,
\* and values without a name in an object.
StrayNameDocs ==
    {Attr(<<CH.a>>, <<CH.d1>>),
     <<CH.lbrack>> \o Attr(<<CH.a>>, <<CH.d1>>) \o <<CH.rbrack>>,
     <<CH.lbrack, CH.d1, CH.comma>> \o Attr(<<CH.a>>, <<CH.d1>>)
         \o <<CH.rbrack>>,
     Obj(<<Attr(<<CH.a>>, Attr(<<CH.b>>, <<CH.d1>>))>>),
     Obj(<<(<<CH.d1>>)>>),
     Obj(<<Attr(<<CH.a>>, <<CH.d1>>), <<CH.d2>>>>)}

\* Documents with two and three commas in a row, and with a comma that
\* follows no value.
DoubleCommaDocs ==
    {<<CH.lbrack, CH.d1, CH.comma, CH.comma, CH.d2, CH.rbrack>>,
     <<CH.lbrack, CH.d1, CH.comma, CH.sp, CH.comma, CH.d2, CH.rbrack>>,
     <<CH.lbrack, CH.d1, CH.comma, CH.comma, CH.comma, CH.d2, CH.rbrack>>,
     <<CH.lbrack, CH.lbrack, CH.rbrack, CH.comma, CH.comma, CH.d2,
       CH.rbrack>>,
     <<CH.lbrace>> \o Attr(<<CH.a>>, <<CH.d1>>) \o <<CH.comma, CH.comma>>
         \o Attr(<<CH.b>>, <<CH.d2>>) \o <<CH.rbrace>>,
     <<CH.lbrace>> \o Attr(<<CH.a>>, Obj(<<>>)) \o <<CH.comma, CH.comma>>
         \o Attr(<<CH.b>>, <<CH.d2>>) \o <<CH.rbrace>>}

LoneCommaDocs ==
    {<<CH.comma>>, <<CH.d1, CH.comma>>,
     <<CH.lbrack, CH.comma, CH.d1, CH.rbrack>>,
     <<CH.lbrace, CH.comma>> \o Attr(<<CH.a>>, <<CH.d1>>) \o <<CH.rbrace>>,
     <<CH.lbrace, CH.a, CH.colon, CH.comma, CH.d1, CH.rbrace>>}

WireDocs ==
    NoCommaDocs \cup CommaDocs \cup StrayNameDocs \cup DoubleCommaDocs
        \cup LoneCommaDocs

NextWire == JpParse(Terminated(WireDocs)) \/ JpStep

SpecWire == Init /\ [][NextWire]_vars

ValueTokens ==
    {"JASTART", "JOSTART", "JNULL", "JBOOL", "JINT", "JDBL", "JSTR"}

\* The iteration of the loop of jp_parse that this step is took a token of
\* one of the types tts and did not return.
Accepted(tts) ==
    pc = "parsing" /\ pc' = "parsing" /\ jp'.tokc.type \in tts

\* The context that iteration found, and the token before the one it took.
CtxBefore == Top(jp).ctx

TokBefore == jp.tokc.type

\* Claim C26: a scalar or the start of a container is accepted at top level
\* only when the token before it is the start of the input, in an array
\* only after the start of the array or a comma, in an object only after a
\* name; a name is accepted only in an object, right after its start or a
\* comma.  So two values with no comma between them are refused in every
\* context, also when the first is a container that was just closed.
C26_WiringOrder ==
    [][/\ Accepted(ValueTokens) =>
            \/ CtxBefore = "CTXVAL" /\ TokBefore = "JINSTART"
            \/ CtxBefore = "CTXARR" /\ TokBefore \in {"JASTART", "JCOMMA"}
            \/ CtxBefore = "CTXOBJ" /\ TokBefore = "JNAME"
       /\ Accepted({"JNAME"}) =>
            CtxBefore = "CTXOBJ" /\ TokBefore \in {"JOSTART", "JCOMMA"}
       /\ pc' = "done" /\ Doc' \in NoCommaDocs \cup StrayNameDocs
            => ret' # 0]_vars

\* [[] 1] was refused at the 1 that follows the closed array.
C26_AfterClosedArray ==
    /\ pc = "done" /\ ret = -1
    /\ Doc = <<CH.lbrack, CH.lbrack, CH.rbrack, CH.sp, CH.d1, CH.rbrack>>
    /\ jp.tokc.type = "JINT" /\ Top(jp).tokp.type = "JAEND"
    /\ Top(jp).ctx = "CTXARR"

\* Claim C27: a comma is accepted only right after a completed value: two
\* commas in a row in an array or in an object, as in [1,,2] and
\* {a:1,,b:2}, make jp_parse return nonzero.
C27_DoubleCommaRejected ==
    pc = "done" /\ Doc \in DoubleCommaDocs \cup LoneCommaDocs => ret # 0

\* [,1] was refused at the comma that follows the start of the array.
C27_CommaAfterStart ==
    /\ pc = "done" /\ ret = -1
    /\ Doc = <<CH.lbrack, CH.comma, CH.d1, CH.rbrack>>
    /\ jp.tokc.type = "JCOMMA" /\ Top(jp).tokp.type = "JASTART"

(***************************************************************************)
(* The state after a parse that succeeded.                                 *)
(***************************************************************************)

\* Documents that are not one complete value: nothing, blanks, containers
\* left open, closed by the bracket of the other type or closed too often,
\* attributes without a value, and two values.
BrokenDocs ==
    {<<>>, <<CH.sp>>, <<CH.sp, CH.lf, CH.tab>>,
     <<CH.lbrack>>, <<CH.lbrace>>, <<CH.lbrack, CH.d1>>,
     <<CH.lbrack, CH.lbrack, CH.rbrack>>,
     <<CH.lbrace, CH.a, CH.colon, CH.d1>>,
     <<CH.lbrace, CH.a, CH.colon, CH.lbrack, CH.rbrack>>,
     <<CH.lbrack, CH.rbrace>>, <<CH.lbrace, CH.rbrack>>,
     <<CH.lbrack, CH.d1, CH.rbrace>>,
     <<CH.lbrace, CH.a, CH.colon, CH.d1, CH.rbrack>>,
     <<CH.lbrack, CH.lbrace, CH.rbrack, CH.rbrace>>,
     <<CH.rbrack>>, <<CH.rbrace>>, <<CH.d1, CH.rbrack>>,
     <<CH.lbrack, CH.rbrack, CH.rbrack>>,
     <<CH.lbrace, CH.rbrace, CH.rbrace>>,
     <<CH.lbrace, CH.a, CH.colon, CH.rbrace>>,
     <<CH.lbrace, CH.a, CH.rbrace>>,
     <<CH.lbrace, CH.a, CH.colon, CH.comma, CH.b, CH.colon, CH.d1,
       CH.rbrace>>,
     <<CH.lbrace, CH.a, CH.colon, CH.d1, CH.comma, CH.b, CH.colon,
       CH.rbrace>>,
     <<CH.lbrack, CH.lbrace, CH.a, CH.colon, CH.rbrace, CH.rbrack>>,
     <<CH.d1, CH.sp, CH.d2>>, <<CH.lbrack, CH.rbrack, CH.lbrack, CH.rbrack>>}

\* Complete values with blanks around them.
PaddedDocs ==
    {<<CH.sp>> \o v \o <<CH.lf>> : v \in WireValues} \cup WireValues

WellDocs == BrokenDocs \cup PaddedDocs \cup CommaDocs \cup DoubleCommaDocs

NextWell == JpParse(Terminated(WellDocs)) \/ JpStep

SpecWell == Init /\ [][NextWell]_vars

\* The brackets of the first n bytes of a document that are still open, the
\* innermost last; <<0>> when a closing bracket met no open one of its
\* type.  (No document has a bracket in a string.)
RECURSIVE OpenAt(_, _)
OpenAt(doc, n) ==
    IF n = 0 THEN <<>>
    ELSE LET o == OpenAt(doc, n - 1)
             b == doc[n]
         IN  IF o = <<0>> THEN o
             ELSE IF b \in {CH.lbrack, CH.lbrace} THEN Append(o, b)
             ELSE IF b \in {CH.rbrack, CH.rbrace} THEN
                 IF o # <<>> /\ o[Len(o)] = b - 2
                 THEN SubSeq(o, 1, Len(o) - 1) ELSE <<0>>
             ELSE o

Blanks == {CH.sp, CH.tab, CH.lf, CH.cr}

\* The places of a document where a value starts outside every bracket.
TopStarts(doc) ==
    {i \in 1..Len(doc) :
        /\ doc[i] \notin Blanks /\ OpenAt(doc, i - 1) = <<>>
        /\ i = 1 \/ doc[i - 1] \in Blanks \cup {CH.rbrack, CH.rbrace}}

\* Claim C28: whenever jp_parse returns 0 the stack is back at its first
\* element with the context of the top level, exactly one value was read at
\* top level (an empty or blank input fails), every array and object that
\* was opened was closed by the bracket of its type, the root is not Absent
\* and every attribute value slot of every object holds a node.
C28_WellFormedOnSuccess ==
    (pc = "done" /\ ret = 0) =>
        /\ jp.sidx = 0 /\ Top(jp).ctx = "CTXVAL"
        /\ Cardinality(TopStarts(Doc)) = 1
        /\ OpenAt(Doc, Len(Doc)) = <<>>
        /\ root \in 2..Len(nodes)
        /\ \A n \in 2..Len(nodes) :
              nodes[n].type = "JT_OBJ" =>
                  /\ nodes[n].closed
                  /\ \A i \in 1..nodes[n].count :
                        nodes[n].values[i] \in 2..Len(nodes)

\* An object in an array was parsed and its attribute has its value.
C28_ObjectComplete ==
    /\ pc = "done" /\ ret = 0 /\ jp.sidx = 0
    /\ Doc = Arr(<<Obj(<<>>), Obj(<<Attr(<<CH.b>>, <<CH.d2>>)>>)>>)
    /\ nodes[root].type = "JT_ARR" /\ nodes[root].count = 2
    /\ nodes[nodes[root].values[2]].type = "JT_OBJ"
    /\ nodes[nodes[nodes[root].values[2]].values[1]].int_val = 2

(***************************************************************************)
(* The name table over many names.                                         *)
(***************************************************************************)

\* The name of one letter, and the letters A.. and a.. from the k-th on.
Letter(c) == <<c>>

Upper(k, n) == [i \in 1..n |-> Letter(64 + k + i - 1)]

Lower(k, n) == [i \in 1..n |-> Letter(96 + k + i - 1)]

\* The names _ and ax fall into the last slot of the first hash table (of
\* 32 slots), X and x, for every letter, into the same slot of it.
Colliding == <<(<<CH.us>>), <<CH.a, CH.x>>>> \o Upper(1, 3) \o Lower(1, 2)

\* The attribute names of the documents, in source order: less than the
\* first capacity of the table, names that come again, and enough names for
\* one, two and three doublings, with and without names that come again.
NameSeqs ==
    {Colliding,
     Lower(1, 2) \o Colliding \o Lower(1, 2),
     Colliding \o Lower(3, 1),
     Colliding \o Lower(3, 2) \o Colliding,
     Upper(1, 8) \o Lower(1, 7),
     Upper(1, 8) \o Lower(1, 8) \o Upper(8, 1) \o Lower(9, 1) \o Upper(1, 1),
     Upper(1, 26) \o Lower(1, 7) \o Upper(26, 1) \o Lower(7, 1)}

\* The object with the attributes named ns, the i-th with the value i % 10.
NamesDoc(ns) ==
    Obj([i \in 1..Len(ns) |-> Attr(ns[i], Digits(<<i % 10>>))])

NamesDocs == {NamesDoc(ns) : ns \in NameSeqs}

NextNames == JpParse(Terminated(NamesDocs)) \/ JpStep

SpecNames == Init /\ [][NextNames]_vars

\* The names of a sequence in the order of their first occurrence.
FirstOcc(ns) ==
    LET add(acc, i) ==
            IF \E k \in 1..Len(acc) : acc[k] = ns[i] THEN acc
            ELSE Append(acc, ns[i])
    IN  Loop(add, <<>>, 1, Len(ns))

\* The names interned in a table, by index: an[1], ..., an[an_cnt - 1].
Interned(ant) == [i \in 1..(ant.an_cnt - 1) |-> ant.names[ant.an[i + 1]]]

\* The names of the document being parsed.
ParsedNames == CHOOSE ns \in NameSeqs : NamesDoc(ns) = SubSeq(json, 1, jsize)

\* The table is consistent: the lookup of the i-th name gives i, the names
\* are those of the document in the order of their first occurrence, as far
\* as the parse has come (all of them after a parse that returned 0), and
\* the hash table has 4 slots for each slot of the name array.
AntConsistent ==
    pc \in {"parsing", "done"} =>
        \A in \in {Interned(jp.ant)} : \A all \in {FirstOcc(ParsedNames)} :
            /\ \A i \in 1..Len(in) : ant_get(jp.ant, in[i]) = i
            /\ Len(in) <= Len(all) /\ in = SubSeq(all, 1, Len(in))
            /\ pc = "done" /\ ret = 0 => in = all
            /\ jp.ant.ht_size = 4 * jp.ant.an_cap
            /\ Len(jp.ant.ht_an) = jp.ant.ht_size
            /\ Len(jp.ant.an) = jp.ant.an_cap

\* The name of the token that the iteration of this step took.
NameTaken == SubSeq(jp'.start, jp'.tokc.pos + 1, jp'.tokc.pos + jp'.tokc.len)

\* The iteration of this step took a name that was interned already.
TookInterned ==
    /\ pc = "parsing" /\ jp'.tokc.type = "JNAME"
    /\ \E i \in 1..(jp.ant.an_cnt - 1) :
          jp.ant.names[jp.ant.an[i + 1]] = NameTaken

MaxAttrs == 3

\* Find hash table element, the table holding the names 1 .. an_cnt - 1.
ant_getLarge(ant, name) ==
    IF 1 <= name /\ name < ant.an_cnt THEN AniCast(name) ELSE -1

\* Add new or search for existing token: [ant, index].  No test compares
\* the count with ANI_MAX.
ant_add_tokenLarge(ant, name) ==
    LET found == ant_getLarge(ant, name)
    IN  IF found >= 0 THEN [ant |-> ant, index |-> found]
        ELSE [ant |-> [ant EXCEPT !.an_cnt = ant.an_cnt + 1],
              index |-> ant.an_cnt]

\* The values of an_cnt at which the object starts: an empty table, and
\* tables that the earlier part of the document has filled.
StartCounts == {1, 2, 65534, 65535}

\* The parser at the start of the object: node 2, in the stack element 1.
InObject(p, cnt) ==
    [p EXCEPT !.ant = [an_cnt |-> cnt],
              !.sidx = 1,
              !.stack[2] = [tokp |-> Token("JOSTART", 1, 0), ctx |-> "CTXOBJ",
                            node |-> 2, node_cap |-> JSON_CAP_MIN]]

InitLarge ==
    /\ jw = jw_create(0, 0)
    /\ jp \in {InObject(jp_create(0), cnt) : cnt \in StartCounts}
    /\ nodes = <<none, [NewNode("JT_OBJ") EXCEPT
                           !.values = Fill(JSON_CAP_MIN, 0),
                           !.anis = Fill(JSON_CAP_MIN, 0)]>>
    /\ root = 2
    /\ json = <<>>
    /\ jsize = 0
    /\ pc = "parsing"
    /\ calls = <<>>
    /\ ret = 0
    /\ res = [op |-> "none", node |-> 0, i |-> 0, name |-> <<>>, n |-> 0]
    /\ ub = {}

\* The iterations of the loop of jp_parse for an attribute: the name, which
\* is the first name of the document or a new one, and its int value, the
\* number of the attribute in the object.
JpAttrLarge ==
    /\ pc = "parsing" /\ nodes[2].count < MaxAttrs
    /\ \E name \in {1, jp.ant.an_cnt} :
        LET a == ant_add_tokenLarge(jp.ant, name)
            r == NameStep(jp, nodes, root, a)
            p == SetTop(r.p, [Top(r.p) EXCEPT !.tokp = Token("JNAME", 1, 0)])
            v == [NewNode("JT_INT") EXCEPT !.int_val = nodes[2].count + 1]
            w == WireNode(p, r.nodes, root, [node |-> v, ub |-> {}])
        IN  /\ jp' = w.p
            /\ nodes' = w.nodes
            /\ json' = Append(json, name)
            /\ jsize' = jsize + 1
    /\ UNCHANGED <<jw, root, pc, calls, ret, res, ub>>

\* The end of the object and of the parse: jp_obj_end, the name of an
\* attribute being the name that holds the attribute's index (an[0] is
\* NULL).
JpEndLarge ==
    /\ pc = "parsing" /\ nodes[2].count > 0
    /\ nodes' = [nodes EXCEPT
                    ![2].names = [i \in 1..nodes[2].count |->
                                     Peek(nodes[2].anis, i - 1)],
                    ![2].ht = HtFill(ht_create(nodes[2].count),
                                     nodes[2].anis, nodes[2].count),
                    ![2].anis = <<>>,
                    ![2].closed = TRUE]
    /\ pc' = "done"
    /\ ret' = 0
    /\ UNCHANGED <<jw, jp, root, json, jsize, calls, res, ub>>

\* jn_attr(n, name) on the object, for the first names of the document and
\* for the names of the object.
JnAttrLarge ==
    /\ pc = "done"
    /\ \E name \in {1, 2} \cup {json[i] : i \in 1..jsize} :
        res' = [op |-> "jn_attr", node |-> 2, i |-> 0, name |-> name,
                n |-> AttrAt(nodes, 2, ant_getLarge(jp.ant, name)).n]
    /\ UNCHANGED <<jw, jp, nodes, root, json, jsize, pc, calls, ret, ub>>

NextLarge == JpAttrLarge \/ JpEndLarge \/ JnAttrLarge

SpecLarge == InitLarge /\ [][NextLarge]_vars

\* The index stored for the i-th attribute of the object.
StoredAni(i) ==
    IF nodes[2].closed THEN nodes[2].names[i] ELSE Peek(nodes[2].anis, i - 1)

\* Claim C30: the indexes of the names fit 16 bits: for any number of
\* different names in one input either the parse fails or the index stored
\* for every name is its position in the name array, so that two names
\* never share an index and jn_attr never returns the value of an attribute
\* with another name.
C30_IndexesFit ==
    /\ \A i \in 1..jsize : StoredAni(i) = json[i]
    /\ res.op = "jn_attr" /\ res.n # 1 =>
          \E i \in 1..jsize :
              nodes[2].values[i] = res.n /\ json[i] = res.name

\* With a small table jn_attr gave the value of the attribute that was
\* asked for: the third of three.
C30_SmallTable ==
    /\ pc = "done" /\ jp.ant.an_cnt = 4 /\ json = <<1, 2, 3>>
    /\ res.op = "jn_attr" /\ res.name = 3
    /\ res.n = nodes[2].values[3] /\ nodes[res.n].int_val = 3

(***************************************************************************)
(* The arena under the calls of its caller.  The arena is that of          *)
(* jp_create(0): chunks of JSON_MEM_MIN bytes.  In this specification      *)
(* nodes holds the blocks that the caller was given since the last reset:  *)
(* [ptr, size, rt, live], ptr being the start of the block (of its header  *)
(* for a returnable block), size its bytes (header included), live that    *)
(* the caller has not given it back; res holds the last call and jsize the *)
(* number of resets.  The caller resizes and frees only returnable blocks  *)
(* that it holds.                                                          *)
(***************************************************************************)

\* The blocks handed out between two resets, and the resets.
MaxBlocks == 3
MaxResets == 1

\* The sizes asked for: small ones (returnable blocks of 32, 40 and 64
\* bytes with the header), one that fills a chunk with its header, the
\* size of a chunk.
PlainSizes == {8, JSON_MEM_MIN}
RtSizes == {8, 12, 40, JSON_MEM_MIN - SizeofRtHdr}
NewSizes == {16, JSON_MEM_MIN}

\* The address of the payload of the returnable block at ptr.
Payload(ptr) == <<ptr[1], ptr[2] + SizeofRtHdr>>

\* copy data to new block: memcpy(ret, ptr, curr->size), for the block ptr
\* of the arena ma that was moved to the block new.  The count is the size
\* of the old block, header included.
ReallocCopy(ma, ptr, new) ==
    [src |-> Payload(ptr), dst |-> Payload(new), n |-> ma.hdr[ptr]]

NoCopy == [src |-> NullPtr, dst |-> NullPtr, n |-> 0]

ArenaCall(op, size, old, ptr, copy) ==
    [op |-> op, size |-> size, old |-> old, ptr |-> ptr, copy |-> copy]

Block(ptr, size, rt) == [ptr |-> ptr, size |-> size, rt |-> rt, live |-> TRUE]

\* The places in nodes of the returnable blocks that the caller holds.
HeldRt == {k \in 1..Len(nodes) : nodes[k].rt /\ nodes[k].live}

InitArena ==
    /\ jw = jw_create(0, 0)
    /\ jp = jp_create(0)
    /\ nodes = <<>>
    /\ root = 0
    /\ json = <<>>
    /\ jsize = 0
    /\ pc = "idle"
    /\ calls = <<>>
    /\ ret = 0
    /\ res = ArenaCall("none", 0, NullPtr, NullPtr, NoCopy)
    /\ ub = {}

\* marena_alloc(ma, size)
MaAlloc ==
    /\ Len(nodes) < MaxBlocks
    /\ \E size \in PlainSizes :
        LET r == marena_alloc(jp.mem, size)
        IN  /\ jp' = [jp EXCEPT !.mem = r.ma]
            /\ nodes' = Append(nodes, Block(r.ptr, ROUNDUP(size), FALSE))
            /\ res' = ArenaCall("marena_alloc", size, NullPtr, r.ptr, NoCopy)
    /\ UNCHANGED <<jw, root, json, jsize, pc, calls, ret, ub>>

\* marena_alloc_rt(ma, size)
MaAllocRt ==
    /\ Len(nodes) < MaxBlocks
    /\ \E size \in RtSizes :
        LET r == marena_alloc_rt(jp.mem, size)
        IN  /\ jp' = [jp EXCEPT !.mem = r.ma]
            /\ nodes' = Append(nodes, Block(r.ptr, r.ma.hdr[r.ptr], TRUE))
            /\ res' = ArenaCall("marena_alloc_rt", size, NullPtr, r.ptr,
                                NoCopy)
    /\ UNCHANGED <<jw, root, json, jsize, pc, calls, ret, ub>>

\* marena_realloc_rt(ma, ptr, size) for a block that the caller holds.  A
\* copy that reads past the storage of the chunk of the old block is
\* undefined.
MaReallocRt ==
    /\ \E k \in HeldRt, size \in NewSizes :
        LET old == nodes[k].ptr
            r == marena_realloc_rt(jp.mem, old, size)
            cp == ReallocCopy(jp.mem, old, r.ptr)
        IN  /\ r.ptr # old => Len(nodes) < MaxBlocks
            /\ jp' = [jp EXCEPT !.mem = r.ma]
            /\ nodes' = IF r.ptr = old THEN nodes
                        ELSE Append([nodes EXCEPT ![k].live = FALSE],
                                    Block(r.ptr, r.ma.hdr[r.ptr], TRUE))
            /\ res' = ArenaCall("marena_realloc_rt", size, old, r.ptr,
                                IF r.ptr = old THEN NoCopy ELSE cp)
            /\ ub' = IF r.ptr # old
                        /\ cp.src[2] + cp.n > jp.mem.chunks[old[1]].size
                     THEN ub \cup {"read_past_chunk"} ELSE ub
    /\ UNCHANGED <<jw, root, json, jsize, pc, calls, ret>>

\* marena_free_rt(ma, ptr) for a block that the caller holds.
MaFreeRt ==
    /\ \E k \in HeldRt :
        /\ jp' = [jp EXCEPT !.mem = marena_free_rt(jp.mem, nodes[k].ptr)]
        /\ nodes' = [nodes EXCEPT ![k].live = FALSE]
        /\ res' = ArenaCall("marena_free_rt", 0, nodes[k].ptr, NullPtr,
                            NoCopy)
    /\ UNCHANGED <<jw, root, json, jsize, pc, calls, ret, ub>>

\* marena_free(ma): the reset that jp_parse starts with.
MaFree ==
    /\ jsize < MaxResets
    /\ jp' = [jp EXCEPT !.mem = marena_free(jp.mem)]
    /\ nodes' = <<>>
    /\ jsize' = jsize + 1
    /\ res' = ArenaCall("marena_free", 0, NullPtr, NullPtr, NoCopy)
    /\ UNCHANGED <<jw, root, json, pc, calls, ret, ub>>

NextArena == MaAlloc \/ MaAllocRt \/ MaReallocRt \/ MaFreeRt \/ MaFree

SpecArena == InitArena /\ [][NextArena]_vars

\* The block lies in the storage of its chunk.
InChunk(ma, b) ==
    /\ b.ptr[1] \in 1..Len(ma.chunks)
    /\ b.ptr[2] >= 0
    /\ b.ptr[2] + b.size <= ma.chunks[b.ptr[1]].size

\* Claim C31: after any sequence of allocations, plain and returnable, the
\* offset of every chunk is at most the size of the chunk and every block
\* handed out lies in the storage of one chunk; a request for more than the
\* size of a chunk returns null.
C31_ArenaBounds ==
    /\ \A c \in 1..Len(jp.mem.chunks) :
          jp.mem.chunks[c].allocated <= jp.mem.chunks[c].size
    /\ \A k \in 1..Len(nodes) : InChunk(jp.mem, nodes[k])
    /\ res.op \in {"marena_alloc", "marena_alloc_rt"}
       /\ ROUNDUP(res.size) > jp.mem.chunk_size => res.ptr = NullPtr

\* A request that did not fit into what was left of the first chunk and
\* fits into a chunk was served at the start of the second chunk.
C31_NextChunk ==
    /\ res.op = "marena_alloc" /\ res.size = JSON_MEM_MIN
    /\ res.ptr = <<2, 0>>
    /\ jp.mem.chunks[1].allocated = 32
    /\ jp.mem.chunks[2] = [size |-> JSON_MEM_MIN, allocated |-> JSON_MEM_MIN]

(***************************************************************************)
(* First fit with split.                                                   *)
(***************************************************************************)

\* The size that the call r handed to marena_alloc_rt: its own, or that of
\* a resize with the header added.
RtRequest(r) ==
    IF r.op = "marena_alloc_rt" THEN r.size
    ELSE ROUNDUP(r.size) + SizeofRtHdr

\* The call r took a block by marena_alloc_rt.
TookRt(r) ==
    \/ r.op = "marena_alloc_rt"
    \/ r.op = "marena_realloc_rt" /\ r.ptr # r.old

\* The free list of ma as marena_alloc_rt left it in the call r (a resize
\* has pushed the old block in front of it since).
ListLeft(ma, r) == IF r.op = "marena_alloc_rt" THEN ma.free ELSE Tail(ma.free)

\* Claim C32: a returnable allocation takes the first block of the free
\* list, in list order, whose size is at least the request rounded up plus
\* the header.  A block of at least twice that size stays in the list at
\* its place, smaller by the carved size, and the request is carved from
\* its tail and stamped; a smaller one is unlinked whole.  When no block
\* fits, and only then, the block is taken at the offset of the current
\* chunk and stamped with its size.
C32_FirstFitSplit ==
    [][TookRt(res') =>
        LET ma == jp.mem
            new == jp'.mem
            sz == ROUNDUP(RtRequest(res')) + SizeofRtHdr
            ptr == res'.ptr
            fits == {i \in 1..Len(ma.free) : ma.hdr[ma.free[i]] >= sz}
            first == CHOOSE i \in fits : \A j \in fits : i <= j
            b == ma.free[first]
            left == ListLeft(new, res')
        IN  IF fits = {} THEN
                /\ left = ma.free
                /\ ptr[1] = new.curr
                /\ ptr[2] + sz = new.chunks[new.curr].allocated
                /\ new.hdr = (ptr :> sz) @@ ma.hdr
            ELSE IF ma.hdr[b] >= 2 * sz THEN
                /\ left = ma.free
                /\ new.chunks = ma.chunks /\ new.curr = ma.curr
                /\ ptr = <<b[1], b[2] + ma.hdr[b] - sz>>
                /\ new.hdr = (ptr :> sz) @@ (b :> ma.hdr[b] - sz) @@ ma.hdr
            ELSE
                /\ left = [i \in 1..(Len(ma.free) - 1) |->
                              ma.free[IF i < first THEN i ELSE i + 1]]
                /\ new.chunks = ma.chunks /\ new.curr = ma.curr
                /\ ptr = b
                /\ new.hdr = ma.hdr]_vars

\* The free list held a block of 32 bytes and behind it one of 64: the
\* request for 12 bytes, 40 with the header, passed the first and took the
\* second whole.
C32_SecondFits ==
    /\ res.op = "marena_alloc_rt" /\ res.size = 12
    /\ res.ptr = <<1, 0>>
    /\ jp.mem.hdr[<<1, 0>>] = 64
    /\ jp.mem.free = << <<1, 64>> >>
    /\ jp.mem.hdr[<<1, 64>>] = 32

\* The request for 8 bytes was carved from the tail of a free block of 64
\* bytes, which stays in the list with 32.
C32_Carved ==
    /\ res.op = "marena_alloc_rt" /\ res.size = 8
    /\ res.ptr = <<1, 32>>
    /\ jp.mem.free = << <<1, 0>> >>
    /\ jp.mem.hdr[<<1, 0>>] = 32 /\ jp.mem.hdr[<<1, 32>>] = 32
    /\ jp.mem.chunks[1].allocated = 64

(***************************************************************************)
(* The free list.  ma.free lists the blocks in the order of the next       *)
(* pointers from ma->free on; a block that was pushed while it was in the  *)
(* list, which closes a cycle in the list of the code, stands in it twice. *)
(***************************************************************************)

\* sizeof(marena_chunk_hdr_t): size, allocated, next
SizeofChunkHdr == 24

\* Where malloc put the chunks: the distances from the storage of a chunk
\* to the storage of the next that a heap can give.  Chunks that lie one
\* behind the other have the header of the chunk and 8 bytes of malloc
\* between them (so glibc lays out chunks that are created in a row); the
\* other layout has them far apart.
HeapStrides(ma) == {ma.chunk_size + SizeofChunkHdr + 8, 4 * ma.chunk_size}

\* The address of ptr in a heap with the chunks stride bytes apart.
Linear(ptr, stride) == (ptr[1] - 1) * stride + ptr[2]

\* The block at p of m bytes and the block at q of n bytes have a byte in
\* common.
Overlap(stride, p, m, q, n) ==
    /\ Linear(p, stride) < Linear(q, stride) + n
    /\ Linear(q, stride) < Linear(p, stride) + m

\* The blocks of the free list of ma: [ptr, size].
FreeBlocks(ma) ==
    [i \in 1..Len(ma.free) |-> [ptr |-> ma.free[i], size |-> ma.hdr[ma.free[i]]]]

\* On the heap with the given distance of the chunks: no block is twice in
\* the free list, and no block of it has a byte in common with another
\* block of the list or with a block in use.
FreeListSound(stride) ==
    LET fb == FreeBlocks(jp.mem)
    IN  /\ \A i, j \in 1..Len(fb) :
              i # j => /\ fb[i].ptr # fb[j].ptr
                       /\ ~Overlap(stride, fb[i].ptr, fb[i].size,
                                   fb[j].ptr, fb[j].size)
        /\ \A i \in 1..Len(fb), k \in 1..Len(nodes) :
              nodes[k].live =>
                  ~Overlap(stride, fb[i].ptr, fb[i].size,
                           nodes[k].ptr, nodes[k].size)

\* Claim C33: the free list has no cycle and no block twice, no block of it
\* has a byte in common with a block in use or with another block of the
\* list, and after a reset of the arena the list is empty.
C33_FreeListSound ==
    /\ \A stride \in HeapStrides(jp.mem) : FreeListSound(stride)
    /\ res.op = "marena_free" => jp.mem.free = <<>>

\* As long as every block handed out lies in the storage of its chunk the
\* free list is sound on every heap.
FreeListSoundInChunks ==
    (\A k \in 1..Len(nodes) : InChunk(jp.mem, nodes[k]))
        => C33_FreeListSound

\* Two blocks are free, the one freed by a resize that moved in front, and
\* the caller holds the block that the resize gave.
C33_TwoFree ==
    /\ res.op = "marena_realloc_rt" /\ res.ptr # res.old
    /\ Len(jp.mem.free) = 2 /\ jp.mem.free[1] = res.old
    /\ \E k \in HeldRt : nodes[k].ptr = res.ptr

(***************************************************************************)
(* The resize of a returnable block.                                       *)
(***************************************************************************)

\* The bytes of the payload of the block at ptr.
PayloadSize(ma, ptr) == ma.hdr[ptr] - SizeofRtHdr

\* Claim C34: a resize of a block whose size, header included, satisfies
\* the request returns the same pointer; any other returns another block
\* with a payload of at least the size asked for, the old block is the head
\* of the free list, and the copy reads no byte outside the payload of the
\* old block and writes no byte outside the payload of the new one.
C34_Realloc ==
    res.op = "marena_realloc_rt" =>
        LET ma == jp.mem
            want == ROUNDUP(res.size)
        IN  IF res.ptr = res.old THEN PayloadSize(ma, res.old) >= want
            ELSE /\ PayloadSize(ma, res.old) < want
                 /\ PayloadSize(ma, res.ptr) >= want
                 /\ ma.free # <<>> /\ ma.free[1] = res.old
                 /\ res.copy.src = Payload(res.old)
                 /\ res.copy.dst = Payload(res.ptr)
                 /\ res.copy.n <= PayloadSize(ma, res.ptr)
                 /\ res.copy.n <= PayloadSize(ma, res.old)

\* A resize moved the block that filled the first chunk: the old block is
\* the head of the free list, the new block has room for what was asked
\* and for the bytes copied, and the copy read past the storage of the
\* chunk.
C34_MovedFromChunkEnd ==
    /\ res.op = "marena_realloc_rt" /\ res.old = <<1, 0>>
    /\ res.size = JSON_MEM_MIN /\ res.ptr = <<2, 0>>
    /\ jp.mem.free[1] = res.old
    /\ res.copy.n = JSON_MEM_MIN /\ res.copy.n <= PayloadSize(jp.mem, res.ptr)
    /\ "read_past_chunk" \in ub

(***************************************************************************)
(* The buffer of a decoded string.                                         *)
(***************************************************************************)

\* The pieces of a string body: a plain byte, an escape that is known and
\* one that is not (kept as two bytes).
Pieces == {<<CH.a>>, <<CH.bslash, CH.n>>, <<CH.bslash, CH.x>>}

\* The pieces of the bodies that are built of every mix.
MaxPieces == 7

\* Bodies around the second size of the buffer, and beyond.
LongBodies ==
    {Rep(n, <<CH.a>>) \o <<CH.bslash, CH.x>> : n \in {13, 14, 15, 30}}

StrDocs ==
    {Quoted(b) :
        b \in LongBodies
              \cup UNION {{Cat(f) : f \in [1..k -> Pieces]} : k \in 0..MaxPieces}}

NextStr == JpParse(Terminated(StrDocs)) \/ JpStep

SpecStr == Init /\ [][NextStr]_vars

\* Claim C35: jp_read_str writes every decoded byte and the NUL behind
\* them at an index below the size of the payload of the destination block,
\* whatever the mix of plain bytes and escapes, and the length of the node
\* is the number of the decoded bytes.
C35_StrInBuffer ==
    /\ "str_overflow" \notin ub
    /\ pc = "done" /\ ret = 0 =>
          /\ nodes[root].type = "JT_STR"
          /\ nodes[root].str_len = Len(nodes[root].str_val)

\* The string of 14 plain bytes and an escape that is not known: 16 bytes
\* are decoded into the block that the resize to 16 gave, the backslash
\* kept.
C35_SecondBlock ==
    /\ pc = "done" /\ ret = 0
    /\ Doc = Quoted(Rep(14, <<CH.a>>) \o <<CH.bslash, CH.x>>)
    /\ nodes[root].str_len = 16
    /\ nodes[root].str_val = Rep(14, <<CH.a>>) \o <<CH.bslash, CH.x>>
    /\ ub = {}

(***************************************************************************)
(* The end of every parse.                                                 *)
(***************************************************************************)

\* Documents that end in a token cut short, and bytes that start no token.
CutDocs ==
    {<<CH.dq, CH.a>>, <<CH.dq, CH.a, CH.bslash, CH.dq>>, <<CH.d1, CH.dot>>,
     <<CH.d1, CH.e>>, <<CH.d1, CH.e, CH.plus>>, <<CH.d1, CH.dot, CH.a>>,
     <<CH.minus>>, <<CH.n, CH.u, CH.l>>, <<CH.a>>, <<CH.a, CH.sp>>,
     <<CH.a, CH.sp, CH.b>>, <<CH.slash>>, <<CH.colon>>, <<CH.plus>>,
     <<CH.hi>>, <<CH.lbrack, CH.dq, CH.a, CH.dq, CH.colon>>,
     <<CH.lbrace, CH.dq, CH.d1, CH.dq, CH.colon>>, <<CH.sp, CH.sp>>}

TermDocs ==
    SmallDocs \cup RfcDocs \cup CommentDocs \cup IdentDocs \cup TrailDocs
        \cup WireDocs \cup WellDocs \cup NamesDocs \cup DupDocs \cup CutDocs
        \cup {Quoted(b) : b \in LongBodies}

NextTerm == JpParse(Terminated(TermDocs)) \/ JpStep

SpecTerm == Init /\ [][NextTerm]_vars

\* The slots in use of a table of keys.
Used(slots) == Cardinality({i \in 1..Len(slots) : slots[i] # 0})

\* A probe of the table ends: at most a quarter of the slots is in use.
LoadLow(slots, size) == Len(slots) = size /\ 4 * Used(slots) <= size

\* The name table and the table of every closed object have a low load.
ProbesEnd ==
    /\ LoadLow(jp.ant.ht_an, jp.ant.ht_size)
    /\ jp.ant.an_cnt <= jp.ant.an_cap \/ jp.ant.an_cap = 0
    /\ \A n \in 1..Len(nodes) :
          nodes[n].type = "JT_OBJ" /\ nodes[n].closed =>
              LoadLow(nodes[n].ht.k, nodes[n].ht.size)

\* Claim C36: jp_parse ends on every input.  The position lies within the
\* input and every iteration of the loop either moves it forward by at
\* least one byte or is the last, so that a parse of len bytes returns
\* after len + 1 iterations at most; and every probe of the name table and
\* of the table of an object finds an empty slot or the key, as at most a
\* quarter of the slots is in use.
C36_Terminates ==
    /\ []ProbesEnd
    /\ [](pc = "parsing" => jp.pos <= jp.len /\ jp.len = jsize)
    /\ [][pc = "parsing" /\ pc' = "parsing" => jp'.pos > jp.pos]_vars
    /\ [][pc = "parsing" => pc' \in {"parsing", "done"}]_vars

\* The parse of the object of 35 attributes ended with three doublings of
\* the name table, an eighth of its slots in use.
C36_ManyNames ==
    /\ pc = "done" /\ ret = 0
    /\ jp.pos = jsize
    /\ jp.ant.ht_size = 256 /\ Used(jp.ant.ht_an) = 33
    /\ nodes[root].ht.size = 140 /\ Used(nodes[root].ht.k) = 33

(***************************************************************************)
(* The bytes behind the document.                                          *)
(***************************************************************************)

\* jp_parse of the caller's document with nothing but a NUL behind it, on a
\* parser just created.
Sliced == jp_parse(jp_create(jp.ssize), Doc \o <<CH.nul>>, jsize, 0)

\* Claim C37: jp_parse reads the bytes 0 to len - 1 of the input only: what
\* a parse gives does not depend on the bytes that follow the document in
\* memory.
C37_ReadsOnlySlice ==
    pc = "done" =>
        Outcome([ret |-> ret, nodes |-> nodes, p |-> jp, root |-> root])
            = Outcome(Sliced)

\* With a blank behind the document 123 the parse gave the int 123.
C37_BlankBehind ==
    /\ pc = "done" /\ ret = 0
    /\ Doc = Digits(<<1, 2, 3>>) /\ json = Doc \o <<CH.sp, CH.nul>>
    /\ nodes[root].type = "JT_INT" /\ nodes[root].int_val = 123

(***************************************************************************)
(* The minus sign.                                                         *)
(***************************************************************************)

\* The bytes around a sign.
SignToks == {<<CH.minus>>, <<CH.d1>>, <<CH.dot>>, <<CH.e>>, <<CH.sp>>,
             <<CH.comma>>}

\* The longest run of them in a document.
MaxSignToks == 3

SignRuns == UNION {{Cat(f) : f \in [1..k -> SignToks]} : k \in 1..MaxSignToks}

\* The runs at top level, in an array and as the value of an attribute.
SignDocs ==
    SignRuns
        \cup {<<CH.lbrack>> \o r \o <<CH.rbrack>> : r \in SignRuns}
        \cup {<<CH.lbrace, CH.a, CH.colon>> \o r \o <<CH.rbrace>> :
                 r \in SignRuns}

NextSign == JpParse(Terminated(SignDocs)) \/ JpStep

SpecSign == Init /\ [][NextSign]_vars

\* The document has a minus sign that no digit follows.
LoneMinus(doc) ==
    \E i \in 1..Len(doc) :
        doc[i] = CH.minus /\ (i = Len(doc) \/ ~IsDigit(doc[i + 1]))

\* Claim C40: a number token has a digit in its integer part: a document
\* with a minus sign that no digit follows, such as - or [-], makes jp_parse
\* return nonzero.
C40_MinusNeedsDigit == pc = "done" /\ LoneMinus(Doc) => ret # 0

\* The document - 1 was refused.
C40_MinusBlank ==
    pc = "done" /\ Doc = <<CH.minus, CH.sp, CH.d1>> /\ ret # 0

(***************************************************************************)
(* The write position and the stack index of the writer.                   *)
(***************************************************************************)

\* The last call was a jw_get that handed out the string.
GotString ==
    Begun /\ calls[Len(calls)].op = "jw_get" /\ ret # -1

\* Claim C38: after any sequence of writer calls that follows jw_begin the
\* write position is at most the buffer size - 1: no byte was ever stored
\* behind the last byte of the buffer, and the NUL that jw_get stores at
\* the position lies inside the buffer.
C38_PosInBuffer ==
    Begun =>
        /\ jw.pos <= jw.len - 1
        /\ Len(jw.start) <= jw.len
        /\ GotString =>
            /\ jsize + 1 <= jw.len
            /\ json[jsize + 1] = CH.nul

\* The buffer filled up to the byte that is kept for the NUL: 1.000... of
\* JSON_MEM_MIN - 1 bytes at top level, and the jw_get that stores the NUL
\* in the last byte of the buffer.
C38_NulInLastByte ==
    /\ GotString /\ ret = 0
    /\ jw.pos = jw.len - 1
    /\ Len(json) = jw.len /\ json[jw.len] = CH.nul

\* Claim C39: the stack index of a writer whose stack has S elements never
\* exceeds S - 1, and a jw_abegin or jw_obegin made at the stack index
\* S - 1, which would open the S-th nested container, leaves the error flag
\* set and pushes no element.
C39_DepthBound ==
    /\ [](jw.sidx <= jw.ssize - 1)
    /\ [][Made(OpenOps) /\ jw.sidx = jw.ssize - 1 =>
            /\ jw'.err # 0
            /\ jw'.sidx = jw.sidx
            /\ jw'.stack = jw.stack]_vars

\* S - 1 arrays are open and the error flag is clear; the jw_abegin that
\* follows wrote its bracket, set the flag and left the stack index.
C39_OneTooDeep ==
    /\ Len(calls) = JSON_STACK_MIN + 1
    /\ OpeningRun(calls)
    /\ jw.sidx = jw.ssize - 1 /\ jw.err = 1
    /\ jw.pos = JSON_STACK_MIN

====
